---- MODULE Spec2Model ----
(***************************************************************************)
(* Verification model of bao-virtio-dm: the per-VM dispatch loop           *)
(* (Vm::run_io), the generic device activation (VirtioDeviceCommon) with   *)
(* the activate() of each device kind, and the block queue handler with    *)
(* the used-queue signalling (SingleFdSignalQueue).                        *)
(*                                                                         *)
(* The specifications that share the module:                               *)
(*   Spec       the dispatch loop against the hypervisor ABI and the bus   *)
(*   SpecAct    driver status writes and device activation                 *)
(*   SpecBlk    the block queue handler, the driver and the irqfd          *)
(*   SpecEvt    the event loop and process() of the handlers               *)
(*   SpecVmm    construction, threads and shutdown of the VMM              *)
(*   SpecBus    the MMIO bus of each VM                                    *)
(*   SpecIoctl  the ioctl request codes                                    *)
(*   SpecIrq    the interrupt status register                              *)
(*   SpecMem    the guest memory of a device                               *)
(*   SpecLock   the mutexes of the dispatch and event threads              *)
(*   SpecNtf    process_queue against the driver's notifications           *)
(***************************************************************************)
EXTENDS Integers, Naturals, Sequences, FiniteSets, TLC

VARIABLES
    \* ---- dispatch loop (vm.rs) ----
    io_pc,          \* position of the dispatch thread inside run_io
    req,            \* the local `req` of run_io (NoReq before the first fetch)
    data,           \* the local 4-byte buffer `data` of run_io
    io_err,         \* the Err value run_io returned ("none" while running)
    io_log,         \* the last message run_io printed ("none" if nothing)
    fetched_req,    \* history: the record request_io returned last
    n_fetched,      \* history: number of requests request_io returned
    notified,       \* history: serial -> number of notify_io_completed calls
    last_done,      \* history: the record handed to notify_io_completed last
    iter_calls,     \* history: the calls of the current loop iteration
    bus_log,        \* history: serials of the requests dispatched on the bus
    dev_regs,       \* scratch register file of the device on the MMIO bus
    scratch_src,    \* history: the u32 last written to each scratch register
    \* ---- device activation (virtio/src/device.rs and the device kinds) ----
    dev_kind,       \* the concrete device type of the VM
    dev,            \* the device and the hypervisor/OS state activation touches
    device_status,  \* the status byte of the device, as its set of bits
    act_pc,         \* position of the dispatch thread inside activate()
    act_result,     \* what the last activate() produced
    act_calls,      \* number of activate() calls so far
    pending_handler,\* the handler travelling through call_blocking
    subscribers,    \* handlers the event manager has added
    fd_raised,      \* eventfds the hypervisor has raised and nobody has read
    pre,            \* history: dev when the last activate() was entered
    pre_subs,       \* history: subscribers when the last activate() was entered
    last_prepare,   \* history: what the last prepare_activate returned
    queue_cfg,      \* the address registers of each queue of the device
    handler_queues, \* the queues the handler or backend got at activation
    \* ---- block queue handler (block/virtio, SingleFdSignalQueue) ----
    blk_pc,         \* position of the event-manager thread in the handler
    blk_registered, \* the handler's ioeventfd is in the event loop
    blk_last,       \* how the last QueueHandler::process ended
    avail,          \* the chains the driver has put in the available ring
    next_avail,     \* Queue::next_avail: chains taken from the ring
    cur_chain,      \* the chain process_chain is working on
    used,           \* the used ring
    no_notify,      \* the used ring carries VRING_USED_F_NO_NOTIFY
    interrupt_status, \* the InterruptStatus register, as its set of bits
    irqfd,          \* number of writes of 1 to the irqfd
    ioeventfd,      \* counter of the queue's ioeventfd
    sig_or_done,    \* history: the running signal_used_queue has set the bit
    acked,          \* history: the driver acknowledged since the last signal
    reports,        \* history: byte count the disk reported, per chain taken
    at_kick,        \* history: ring and irqfd when process() was entered
    \* ---- event loop (queue_handler.rs of each device, vm.rs) ----
    evt_kind,       \* the kind of the handler the event loop holds
    evt_interest,   \* descriptors registered in the event loop
    evt_closed,     \* registered descriptors that were closed since
    evt_ready,      \* descriptors that are readable
    evt_thread,     \* the event-loop thread: "running" or "panicked"
    evt_failed,     \* history: a process() call took an error branch
    evt_path,       \* history: the branch the last process() call took
    evt_served,     \* number of events delivered so far
    evt_last,       \* history: what the last process() call was given and did
    \* ---- the VMM and its threads (vmm.rs, main.rs) ----
    cfg,            \* the dataplane of each configured device
    vmm_pc,         \* position of the main thread
    ctl_fd,         \* the descriptor of /dev/bao
    ctl_opens,      \* number of times /dev/bao was opened
    vms,            \* the VMs created so far
    backends,       \* the hypervisor backend of each VM
    threads,        \* the threads spawned by Vmm::run
    vcpus,          \* Vmm.vcpus: the handles not yet joined
    process,        \* "running" or "exited"
    dev_cfg,        \* the device configurations: type, dataplane, mmio_addr
    device_manager, \* per VM, the (range, device) pairs of its MMIO bus
    bus_pc,         \* Vm::new: "new", "add_device", "done" or "panicked"
    add_result,     \* history: what the match of the last add_device gave
    \* ---- ioctl request codes (ioctl.rs) ----
    ioctl_log,      \* the request codes computed: number and code of each
    \* ---- interrupt status register (device.rs) ----
    irq_kind,       \* the kind of the device
    int_status,     \* config.interrupt_status, the set of its bits
    irq_log,        \* history: the signals, reads and ACKs and their effect
    \* ---- guest memory of a device (device.rs) ----
    mem_cfg,        \* shmem_addr and shmem_size of the configuration
    regions,        \* VirtioDeviceCommon.regions
    mem_pc,         \* "new", "mapped" or "panicked"
    mem_log,        \* history: the regions before and after each mem()
    \* ---- the DeviceModel mutex (vm.rs, device.rs) ----
    lk_pc,          \* the site a thread is at, or where run_io is
    lk_phase,       \* "lock", "call", "unlock", "failed" within a site
    dm_holder,      \* the thread that holds the mutex, or "none"
    dm_held_calls,  \* ABI calls made under the guard that holds it
    lk_queues,      \* number of queues of the device
    lk_registered,  \* ioeventfds registered by prepare_activate
    lk_activated,   \* the device has been activated
    lk_iters,       \* iterations of run_io completed
    lk_io_held,     \* mutexes the dispatch thread holds besides the DeviceModel
    lk_evm_held,    \* mutexes the event thread holds
    nq_pc,          \* where process_queue is, "epoll" outside process()
    nq_registered,  \* the handler is subscribed in the event loop
    nq_avail,       \* avail.idx: chains the driver has published
    nq_next,        \* next_avail of the queue: chains taken by the handler
    nq_done,        \* chains process_chain has completed
    nq_no_notify,   \* the NO_NOTIFY flag of the used ring
    nq_eventfd,     \* counter of the queue's ioeventfd
    nq_drv,         \* the driver: "idle" or "published" (flag not read yet)
    nq_suppressed,  \* history: chains whose kick the driver left out
    nq_sub_kicks    \* history: kicks unread when the handler was subscribed

io_vars ==
    <<io_pc, req, data, io_err, io_log, fetched_req, n_fetched, notified,
      last_done, iter_calls, bus_log, dev_regs, scratch_src>>

act_vars ==
    <<dev_kind, dev, device_status, act_pc, act_result, act_calls,
      pending_handler, subscribers, fd_raised, pre, pre_subs, last_prepare,
      queue_cfg, handler_queues>>

blk_vars ==
    <<blk_pc, blk_registered, blk_last, avail, next_avail, cur_chain, used,
      no_notify, interrupt_status, irqfd, ioeventfd, sig_or_done, acked,
      reports, at_kick>>

evt_vars ==
    <<evt_kind, evt_interest, evt_closed, evt_ready, evt_thread, evt_failed,
      evt_path, evt_served, evt_last>>

vmm_vars ==
    <<cfg, vmm_pc, ctl_fd, ctl_opens, vms, backends, threads, vcpus, process>>

bus_vars ==
    <<dev_cfg, device_manager, bus_pc, add_result>>

ntf_vars ==
    <<nq_pc, nq_registered, nq_avail, nq_next, nq_done, nq_no_notify,
      nq_eventfd, nq_drv, nq_suppressed, nq_sub_kicks>>

ioc_vars ==
    <<ioctl_log>>

irq_vars ==
    <<irq_kind, int_status, irq_log>>

mem_vars ==
    <<mem_cfg, regions, mem_pc, mem_log>>

lck_vars ==
    <<lk_pc, lk_phase, dm_holder, dm_held_calls, lk_queues, lk_registered,
      lk_activated, lk_iters,
      lk_io_held, lk_evm_held>>

\* What the steps of one specification leave alone: the other groups.
not_io ==
    <<act_vars, blk_vars, evt_vars, vmm_vars, bus_vars, ioc_vars, irq_vars,
      mem_vars, lck_vars, ntf_vars>>

not_act ==
    <<io_vars, blk_vars, evt_vars, vmm_vars, bus_vars, ioc_vars, irq_vars,
      mem_vars, lck_vars, ntf_vars>>

not_blk ==
    <<io_vars, act_vars, evt_vars, vmm_vars, bus_vars, ioc_vars, irq_vars,
      mem_vars, lck_vars, ntf_vars>>

not_evt ==
    <<io_vars, act_vars, blk_vars, vmm_vars, bus_vars, ioc_vars, irq_vars,
      mem_vars, lck_vars, ntf_vars>>

not_vmm ==
    <<io_vars, act_vars, blk_vars, evt_vars, bus_vars, ioc_vars, irq_vars,
      mem_vars, lck_vars, ntf_vars>>

not_bus ==
    <<io_vars, act_vars, blk_vars, evt_vars, vmm_vars, ioc_vars, irq_vars,
      mem_vars, lck_vars, ntf_vars>>

not_ioc ==
    <<io_vars, act_vars, blk_vars, evt_vars, vmm_vars, bus_vars, irq_vars,
      mem_vars, lck_vars, ntf_vars>>

not_irq ==
    <<io_vars, act_vars, blk_vars, evt_vars, vmm_vars, bus_vars, ioc_vars,
      mem_vars, lck_vars, ntf_vars>>

not_mem ==
    <<io_vars, act_vars, blk_vars, evt_vars, vmm_vars, bus_vars, ioc_vars,
      irq_vars, lck_vars, ntf_vars>>

not_lck ==
    <<io_vars, act_vars, blk_vars, evt_vars, vmm_vars, bus_vars, ioc_vars,
      irq_vars, mem_vars, ntf_vars>>

not_ntf ==
    <<io_vars, act_vars, blk_vars, evt_vars, vmm_vars, bus_vars, ioc_vars,
      irq_vars, mem_vars, lck_vars>>

vars ==
    <<io_vars, act_vars, blk_vars, evt_vars, vmm_vars, bus_vars, ioc_vars,
      irq_vars, mem_vars, lck_vars, ntf_vars>>

-----------------------------------------------------------------------------
(* Bounds *)

\* Number of requests the guest issues in one run.
MaxRequests == 3

\* Number of times the driver brings the device to DRIVER_OK.
MaxActivations == 2

\* Number of chains the driver makes available on the block queue.
MaxChains == 2

\* Number of kicks the ioeventfd holds unread.
MaxKicks == 2

\* Number of events the event loop delivers.
MaxEvents == 3

\* Number of devices (one VM each) in the configuration.
MaxLockIters ==
    2

MaxMemCalls ==
    2

MaxIrqOps ==
    3

MaxIoctls ==
    2

MaxVms == 2

\* Number of chains the driver publishes while process_queue is watched.
MaxNtfChains == 3

-----------------------------------------------------------------------------
(* Program constants *)

BAO_IO_WRITE == 0
BAO_IO_READ == 1
BAO_IO_ASK == 2
BAO_IO_NOTIFY == 3

\* Size of the MMIO range of one device (0x200).
MMIO_RANGE_SIZE == 512

\* Offset of the QueueNotify register (0x50).
VIRTIO_MMIO_QUEUE_NOTIFY_OFFSET == 80

BAO_IOEVENTFD_FLAG_DATAMATCH == 2

VIRTIO_F_VERSION_1 == 32

VIRTIO_F_IOMMU_PLATFORM == 33

VIRTIO_F_IN_ORDER == 35

\* Bits of the device status byte.
STATUS_ACKNOWLEDGE == 1
STATUS_DRIVER == 2
STATUS_DRIVER_OK == 4
STATUS_FEATURES_OK == 8
STATUS_FAILED == 128

\* Used-buffer notification bit of InterruptStatus.
VIRTIO_MMIO_INT_CONFIG ==
    2

VIRTIO_MMIO_INT_VRING == 1

\* Event data the block handler registers its ioeventfd with.
BAO_IOCTL_TYPE ==
    166

IOEVENT_DATA == 0

-----------------------------------------------------------------------------
(* Integers of the request.  A u64 is four 16-bit limbs, least significant *)
(* first; a u32 is two limbs; a byte buffer is a tuple of bytes.           *)

Limb ==
    256 * 256

\* `req.value as u32`: truncation to the low 32 bits.
AsU32(v) ==
    <<v[1] % Limb, v[2] % Limb>>

\* The bytes of a u32, most significant first.
ToLeBytes_BigEndian(w) ==
    <<w[2] \div 256, w[2] % 256, w[1] \div 256, w[1] % 256>>

\* u32::to_le_bytes.
ToLeBytes(w) ==
    <<w[1] % 256, w[1] \div 256, w[2] % 256, w[2] \div 256>>

\* u32::from_le_bytes.
FromLeBytes(b) ==
    <<b[1] + 256 * b[2], b[3] + 256 * b[4]>>

\* `as u64`: zero extension.
AsU64(w) ==
    <<w[1], w[2], 0, 0>>

-----------------------------------------------------------------------------
(* The VM of the dispatch specification: one device on the bus.            *)

\* config.mmio_addr of the one device of the VM.
MmioBase ==
    4096

\* The bus: (range, device) pairs; a VM holds one device (vm.rs:72).
Bus ==
    {[base |-> MmioBase, size |-> MMIO_RANGE_SIZE, dev |-> "dev0"]}

\* Offsets of the device that behave as pass-through scratch storage.
ScratchOffsets ==
    {256}

\* Offsets inside the device's range at which no register is defined.
UndefinedOffsets ==
    {24}

\* Addresses the guest accesses: a scratch register, an offset without a
\* register, and an address that no device owns.
ReqAddrs ==
    {MmioBase + 256, MmioBase + 24, MmioBase + MMIO_RANGE_SIZE}

ReqValues ==
    {<<0, 0, 0, 0>>, <<4660, 43981, 0, 0>>, <<1, 0, 1, 0>>}

ReqOps ==
    {BAO_IO_WRITE, BAO_IO_READ, BAO_IO_ASK, BAO_IO_NOTIFY}

\* BaoIoRequest: the records request_io may return.
Requests ==
    [virtio_id : {0}, reg_off : {256, 512}, addr : ReqAddrs, op : ReqOps,
     value : ReqValues, access_width : {4}, cpu_id : {0}, vcpu_id : {0, 1},
     ret : {0}]

NoReq ==
    [op |-> "none"]

\* The fields of BaoIoRequest other than value.
IdFields ==
    {"virtio_id", "reg_off", "addr", "op", "access_width", "cpu_id",
     "vcpu_id", "ret"}

\* IoManager: the (range, device) entry that owns addr, if any.
BusOwners(addr) ==
    {e \in Bus : e.base <= addr /\ addr < e.base + e.size}

\* IoManager::mmio_write: Err when no device owns the address.
MmioWriteOk(addr) ==
    BusOwners(addr) # {}

\* IoManager::mmio_read: Err when no device owns the address.
MmioReadOk(addr) ==
    BusOwners(addr) # {}

\* The device's register write at `offset`.
DevWrite(regs, offset, bytes) ==
    IF offset \in ScratchOffsets
    THEN [regs EXCEPT ![offset] = bytes]
    ELSE regs

\* The device's register read at `offset` into the buffer: an offset
\* without a register leaves the buffer as the caller filled it.
DevRead(regs, offset, bytes) ==
    IF offset \in ScratchOffsets THEN regs[offset] ELSE bytes

-----------------------------------------------------------------------------
(* Vm::run_io *)

\* A slip that stores the unpacked buffer in the wrong field of the request.
UpdateReqValue_mut(r, bytes) ==
    [r EXCEPT !.reg_off = bytes[1] + 256 * bytes[2]]

\* req.value = u32::from_le_bytes(data) as u64
UpdateReqValue(r, bytes) ==
    [r EXCEPT !.value = AsU64(FromLeBytes(bytes))]

\* A dispatch that names the wrong access in its error.
InvalidMmioOperation_Swapped(op) ==
    IF op = BAO_IO_WRITE
    THEN "InvalidMmioOperation(read)"
    ELSE "InvalidMmioOperation(write)"

\* Error::InvalidMmioOperation("write") for a failed mmio_write,
\* Error::InvalidMmioOperation("read") for a failed mmio_read.
InvalidMmioOperation(op) ==
    IF op = BAO_IO_WRITE
    THEN "InvalidMmioOperation(write)"
    ELSE "InvalidMmioOperation(read)"

IoInit ==
    /\ io_pc = "attach"
    /\ req = NoReq
    /\ data = <<0, 0, 0, 0>>
    /\ io_err = "none"
    /\ io_log = "none"
    /\ fetched_req = NoReq
    /\ n_fetched = 0
    /\ notified = [s \in {} |-> 0]
    /\ last_done = NoReq
    /\ iter_calls = <<>>
    /\ bus_log = <<>>
    /\ dev_regs = [o \in ScratchOffsets |-> <<0, 0, 0, 0>>]
    /\ scratch_src = [o \in ScratchOffsets |-> <<0, 0>>]

\* run_io returns Err(e): the loop ends.
RunIoReturn(e) ==
    /\ io_pc' = "returned"
    /\ io_err' = e

\* attach_io_client(): blocks until a request is pending, or fails.
RunIoAttach ==
    /\ io_pc = "attach"
    /\ iter_calls' = <<"attach_io_client">>
    /\ \/ /\ n_fetched < MaxRequests
          /\ io_pc' = "request"
          /\ UNCHANGED io_err
       \/ RunIoReturn("BaoIoctlError")
    /\ UNCHANGED <<req, data, io_log, fetched_req, n_fetched, notified,
                   last_done, bus_log, dev_regs, scratch_src>>

\* request_io() and the packing of req.value into the buffer.
RunIoRequest ==
    /\ io_pc = "request"
    /\ iter_calls' = Append(iter_calls, "request_io")
    /\ \/ \E r \in Requests :
             /\ req' = r
             /\ fetched_req' = r
             /\ n_fetched' = n_fetched + 1
             /\ notified' = [s \in 1..(n_fetched + 1) |->
                               IF s <= n_fetched THEN notified[s] ELSE 0]
             /\ data' = ToLeBytes(AsU32(r.value))
             /\ io_pc' = "dispatch"
             /\ UNCHANGED io_err
       \/ /\ RunIoReturn("BaoIoctlError")
          /\ UNCHANGED <<req, fetched_req, n_fetched, notified, data>>
    /\ UNCHANGED <<io_log, last_done, bus_log, dev_regs, scratch_src>>

\* match req.op { .. } and the unpacking of the buffer into req.value.
RunIoDispatch ==
    /\ io_pc = "dispatch"
    /\ \/ /\ req.op = BAO_IO_WRITE
          /\ iter_calls' = Append(iter_calls, "mmio_write")
          /\ bus_log' = Append(bus_log, n_fetched)
          /\ IF MmioWriteOk(req.addr)
             THEN /\ dev_regs' = DevWrite(dev_regs, req.addr - MmioBase, data)
                  /\ scratch_src' =
                        IF req.addr - MmioBase \in ScratchOffsets
                        THEN [scratch_src EXCEPT ![req.addr - MmioBase] =
                                AsU32(fetched_req.value)]
                        ELSE scratch_src
                  /\ req' = UpdateReqValue(req, data)
                  /\ io_pc' = "notify"
                  /\ UNCHANGED <<io_err, io_log>>
             ELSE /\ io_log' = "Invalid Mmio write operation"
                  /\ RunIoReturn(InvalidMmioOperation(req.op))
                  /\ UNCHANGED <<dev_regs, req, scratch_src>>
          /\ UNCHANGED data
       \/ /\ req.op = BAO_IO_READ
          /\ iter_calls' = Append(iter_calls, "mmio_read")
          /\ bus_log' = Append(bus_log, n_fetched)
          /\ IF MmioReadOk(req.addr)
             THEN /\ data' = DevRead(dev_regs, req.addr - MmioBase, data)
                  /\ req' = UpdateReqValue(req, data')
                  /\ io_pc' = "notify"
                  /\ UNCHANGED <<io_err, io_log>>
             ELSE /\ io_log' = "Invalid Mmio read operation"
                  /\ RunIoReturn(InvalidMmioOperation(req.op))
                  /\ UNCHANGED <<data, req>>
          /\ UNCHANGED <<dev_regs, scratch_src>>
       \/ /\ req.op \notin {BAO_IO_WRITE, BAO_IO_READ}
          /\ io_log' = "Invalid I/O request direction"
          /\ RunIoReturn("InvalidIoReqDirection")
          /\ UNCHANGED <<iter_calls, bus_log, dev_regs, data, req,
                         scratch_src>>
    /\ UNCHANGED <<fetched_req, n_fetched, notified, last_done>>

\* A loop that fetches the next request without attaching again.
RunIoNotify_mut ==
    /\ io_pc = "notify"
    /\ iter_calls' = Append(iter_calls, "notify_io_completed")
    /\ notified' = [notified EXCEPT ![n_fetched] = @ + 1]
    /\ last_done' = req
    /\ \/ /\ io_pc' = IF n_fetched < MaxRequests THEN "request" ELSE "attach"
          /\ UNCHANGED io_err
       \/ RunIoReturn("BaoIoctlError")
    /\ UNCHANGED <<req, data, io_log, fetched_req, n_fetched, bus_log,
                   dev_regs, scratch_src>>

\* notify_io_completed(req).
RunIoNotify ==
    /\ io_pc = "notify"
    /\ iter_calls' = Append(iter_calls, "notify_io_completed")
    /\ notified' = [notified EXCEPT ![n_fetched] = @ + 1]
    /\ last_done' = req
    /\ \/ /\ io_pc' = "attach"
          /\ UNCHANGED io_err
       \/ RunIoReturn("BaoIoctlError")
    /\ UNCHANGED <<req, data, io_log, fetched_req, n_fetched, bus_log,
                   dev_regs, scratch_src>>

-----------------------------------------------------------------------------
(* Device kinds (Vm::add_device) and their queues                          *)

Kinds ==
    {"block", "net_virtio", "net_vhost", "vsock_virtio", "vsock_vhost",
     "fs_vhost_user", "console"}

\* VirtioDevType::queue_num_and_size, the number of queues.
QueueNum(k) ==
    CASE k \in {"net_virtio", "net_vhost"} -> 2
      [] k = "block" -> 1
      [] k = "console" -> 0
      [] k \in {"vsock_virtio", "vsock_vhost"} -> 3
      [] k = "fs_vhost_user" -> 2

\* Devices whose constructor already took the guest memory out of
\* VirtioDeviceCommon (Net::new / Vsock::new get common_device.mem()).
MemTakenAtNew(k) ==
    k \in {"net_vhost", "vsock_vhost"}

\* Feature words the driver may write (sets of bit numbers).
FeatureWrites ==
    {{VIRTIO_F_VERSION_1}, {VIRTIO_F_IN_ORDER},
     {VIRTIO_F_VERSION_1, VIRTIO_F_IOMMU_PLATFORM}}

\* Values the guest may write to QueueNotify.
KickValues ==
    {0, 1, 2}

ResOk ==
    [tag |-> "Ok", err |-> "none", arg |-> {}]

ResErr(e, a) ==
    [tag |-> "Err", err |-> e, arg |-> a]

ResPanic ==
    [tag |-> "panic", err |-> "none", arg |-> {}]

ResNone ==
    [tag |-> "none", err |-> "none", arg |-> {}]

NoHandler ==
    [kind |-> "none", fds |-> <<>>]

\* The device of kind k after construction (VirtioDeviceT::new,
\* VirtioDeviceCommon::new), with nothing registered for its queues yet.
NewDevice(k) ==
    [activated |-> FALSE,
     features  |-> {},
     queues    |-> [i \in 1..QueueNum(k) |-> i - 1],
     regions   |-> IF MemTakenAtNew(k) THEN 0 ELSE 1,
     next_fd   |-> 10,
     eventfds  |-> {},
     regs      |-> {},
     backend   |-> {}]

\* BaoDeviceModel::register_ioeventfd: the BaoIoEventFd handed to the ioctl.
RegisterIoeventfd(kick, flags, addr, datamatch) ==
    [fd |-> kick, flags |-> flags, addr |-> addr, len |-> 4, reserved |-> 0,
     data |-> datamatch]

\* EventFd::new(EFD_NONBLOCK) for the fd number n.
NewEventFd(n) ==
    [fd |-> n, nonblock |-> TRUE]

\* driver_features & (1 << bit) == 0
LacksFeature(features, bit) ==
    features \cap {bit} = {}

\* A prepare_activate without the check for legacy drivers.
PrepareActivate_NoVersionCheck(d) ==
    IF d.activated
    THEN [res |-> ResErr("DeviceAlreadyActivated", {}), ioevents |-> <<>>,
          dev |-> d]
    ELSE LET n == Len(d.queues)
             fds == [i \in 1..n |-> d.next_fd + i - 1]
         IN [res |-> ResOk,
             ioevents |-> fds,
             dev |-> [d EXCEPT
                 !.next_fd = d.next_fd + n,
                 !.eventfds = d.eventfds \cup {NewEventFd(fds[i]) : i \in 1..n},
                 !.regs = d.regs \cup
                     {RegisterIoeventfd(fds[i], BAO_IOEVENTFD_FLAG_DATAMATCH,
                          MmioBase + VIRTIO_MMIO_QUEUE_NOTIFY_OFFSET, i - 1)
                      : i \in 1..n}]]

\* A prepare_activate that registers the enumeration index off by one.
PrepareActivate_OffByOne(d) ==
    IF d.activated
    THEN [res |-> ResErr("DeviceAlreadyActivated", {}), ioevents |-> <<>>,
          dev |-> d]
    ELSE IF LacksFeature(d.features, VIRTIO_F_VERSION_1)
    THEN [res |-> ResErr("DeviceBadFeatures", d.features), ioevents |-> <<>>,
          dev |-> d]
    ELSE LET n == Len(d.queues)
             fds == [i \in 1..n |-> d.next_fd + i - 1]
         IN [res |-> ResOk,
             ioevents |-> fds,
             dev |-> [d EXCEPT
                 !.next_fd = d.next_fd + n,
                 !.eventfds = d.eventfds \cup {NewEventFd(fds[i]) : i \in 1..n},
                 !.regs = d.regs \cup
                     {RegisterIoeventfd(fds[i], BAO_IOEVENTFD_FLAG_DATAMATCH,
                          MmioBase + VIRTIO_MMIO_QUEUE_NOTIFY_OFFSET, i)
                      : i \in 1..n}]]

\* VirtioDeviceCommon::prepare_activate: the result, the eventfds returned
\* and the device/hypervisor state after the call.
PrepareActivate(d) ==
    IF d.activated
    THEN [res |-> ResErr("DeviceAlreadyActivated", {}), ioevents |-> <<>>,
          dev |-> d]
    ELSE IF LacksFeature(d.features, VIRTIO_F_VERSION_1)
    THEN [res |-> ResErr("DeviceBadFeatures", d.features), ioevents |-> <<>>,
          dev |-> d]
    ELSE LET n == Len(d.queues)
             fds == [i \in 1..n |-> d.next_fd + i - 1]
         IN [res |-> ResOk,
             ioevents |-> fds,
             dev |-> [d EXCEPT
                 !.next_fd = d.next_fd + n,
                 !.eventfds = d.eventfds \cup {NewEventFd(fds[i]) : i \in 1..n},
                 !.regs = d.regs \cup
                     {RegisterIoeventfd(fds[i], BAO_IOEVENTFD_FLAG_DATAMATCH,
                          MmioBase + VIRTIO_MMIO_QUEUE_NOTIFY_OFFSET, i - 1)
                      : i \in 1..n}]]

\* The outcome of an activate(): how it ended (`res`; tag "call_blocking"
\* when it waits for the event manager), the device afterwards, the handler
\* it built and what prepare_activate returned to it.
Outcome(res, d, handler, p) ==
    [res |-> res, dev |-> d, handler |-> handler, prep |-> p]

Waiting ==
    [tag |-> "call_blocking", err |-> "none", arg |-> {}]

\* The first m elements of a vector, taken out by m calls of remove(0).
Take(s, m) ==
    SubSeq(s, 1, m)

\* VirtioBlock::activate.
ActivateBlock(d) ==
    LET p == PrepareActivate(d)
    IN IF p.res.tag # "Ok"
       THEN Outcome(ResPanic, p.dev, NoHandler, p)
       ELSE IF p.dev.regions = 0 \/ Len(p.dev.queues) < 1
                                \/ Len(p.ioevents) < 1
       THEN Outcome(ResPanic, [p.dev EXCEPT !.regions = 0], NoHandler, p)
       ELSE Outcome(Waiting,
                    [p.dev EXCEPT !.regions = 0, !.queues = Tail(@)],
                    [kind |-> "block", fds |-> Take(p.ioevents, 1)], p)

\* VirtioNet::activate (tap_ok: whether the TAP device could be opened).
ActivateNet(d, tap_ok) ==
    IF ~tap_ok
    THEN Outcome(ResErr("NetTapOpenFailed", {}), d, NoHandler,
                 [res |-> ResNone, ioevents |-> <<>>, dev |-> d])
    ELSE LET p == PrepareActivate(d)
         IN IF p.res.tag # "Ok"
            THEN Outcome(p.res, p.dev, NoHandler, p)
            ELSE IF p.dev.regions = 0 \/ Len(p.ioevents) < 2
            THEN Outcome(ResPanic, [p.dev EXCEPT !.regions = 0], NoHandler, p)
            ELSE Outcome(Waiting, [p.dev EXCEPT !.regions = 0],
                         [kind |-> "net", fds |-> Take(p.ioevents, 2)], p)

\* VirtioConsole::activate.
ActivateConsole(d) ==
    LET p == PrepareActivate(d)
    IN IF p.res.tag # "Ok"
       THEN Outcome(ResPanic, p.dev, NoHandler, p)
       ELSE IF p.dev.regions = 0 \/ Len(p.dev.queues) < 2
                                \/ Len(p.ioevents) < 2
       THEN Outcome(ResPanic, [p.dev EXCEPT !.regions = 0], NoHandler, p)
       ELSE Outcome(Waiting,
                    [p.dev EXCEPT !.regions = 0, !.queues = Tail(Tail(@))],
                    [kind |-> "console", fds |-> Take(p.ioevents, 2)], p)

\* VirtioVsock::activate.
ActivateVsock(d) ==
    LET p == PrepareActivate(d)
    IN IF p.res.tag # "Ok"
       THEN Outcome(ResPanic, p.dev, NoHandler, p)
       ELSE IF p.dev.regions = 0
       THEN Outcome(ResPanic, p.dev, NoHandler, p)
       ELSE Outcome(Waiting, [p.dev EXCEPT !.regions = 0],
                    [kind |-> "vsock", fds |-> p.ioevents], p)

\* set_vring_kick(queue_index, ioeventfd) for the first m queues.
VringKicks(ioevents, m) ==
    {[queue |-> i - 1, fd |-> ioevents[i]] : i \in 1..m}

Min(a, b) ==
    IF a <= b THEN a ELSE b

\* VhostNet::activate.
ActivateVhostNet(d, tap_ok) ==
    IF ~tap_ok
    THEN Outcome(ResErr("NetTapOpenFailed", {}), d, NoHandler,
                 [res |-> ResNone, ioevents |-> <<>>, dev |-> d])
    ELSE LET p == PrepareActivate(d)
         IN IF p.res.tag # "Ok"
            THEN Outcome(ResPanic, p.dev, NoHandler, p)
            ELSE Outcome(ResOk,
                         [p.dev EXCEPT
                            !.backend = @ \cup VringKicks(p.ioevents,
                                Min(Len(p.dev.queues), Len(p.ioevents))),
                            !.activated = TRUE],
                         NoHandler, p)

\* VhostVsockDevice::activate: only the first two queues go to the backend.
ActivateVhostVsock(d) ==
    LET p == PrepareActivate(d)
    IN IF p.res.tag # "Ok"
       THEN Outcome(ResPanic, p.dev, NoHandler, p)
       ELSE Outcome(ResOk,
                    [p.dev EXCEPT
                       !.backend = @ \cup VringKicks(p.ioevents,
                           Min(Min(Len(p.dev.queues), 2), Len(p.ioevents))),
                       !.activated = TRUE],
                    NoHandler, p)

\* VhostUserFs::activate.
ActivateVhostUserFs(d) ==
    LET p == PrepareActivate(d)
    IN IF p.res.tag # "Ok"
       THEN Outcome(ResPanic, p.dev, NoHandler, p)
       ELSE IF p.dev.regions = 0
       THEN Outcome(ResPanic, p.dev, NoHandler, p)
       ELSE Outcome(ResOk,
                    [p.dev EXCEPT
                       !.regions = 0,
                       !.backend = @ \cup VringKicks(p.ioevents,
                           Min(Len(p.dev.queues), Len(p.ioevents)))],
                    NoHandler, p)

\* VirtioDeviceActions::activate of the device kind k.
Activate(k, d, tap_ok) ==
    CASE k = "block" -> ActivateBlock(d)
      [] k = "net_virtio" -> ActivateNet(d, tap_ok)
      [] k = "console" -> ActivateConsole(d)
      [] k = "vsock_virtio" -> ActivateVsock(d)
      [] k = "net_vhost" -> ActivateVhostNet(d, tap_ok)
      [] k = "vsock_vhost" -> ActivateVhostVsock(d)
      [] k = "fs_vhost_user" -> ActivateVhostUserFs(d)

UsesTap(k) ==
    k \in {"net_virtio", "net_vhost"}

\* The address registers of a queue nobody has written.
NoAddr ==
    [desc |-> 0, avail |-> 0, used |-> 0]

\* The queues of a new device of kind k, by queue index.
NewQueues(k) ==
    [q \in 0..(QueueNum(k) - 1) |-> NoAddr]

\* Queue address registers the driver may write, and the position it selects.
QueueFields ==
    {"desc", "avail", "used"}

QueueSels ==
    {0}

\* Indices of the queues an activation gave to its handler (one per
\* ioeventfd the handler holds) or to its vhost backend (set_vring_addr).
TakenQueues(out) ==
    {i - 1 : i \in 1..Len(out.handler.fds)}
        \cup {k.queue : k \in out.dev.backend}

\* The queues as the handler or backend holds them: the Queue moved out of
\* the configuration, a clone of it, or the addresses handed to the backend.
CapturedQueues(out, config) ==
    [q \in TakenQueues(out) \cap DOMAIN config |-> config[q]]

\* A handler that works on the queues of the configuration themselves.
HeldQueues_Shared(held, config) ==
    [q \in DOMAIN held |-> config[q]]

\* What a write to the configuration's queues does to the queues the
\* handler or backend holds: nothing, they are its own.
HeldQueues(held, config) ==
    held

-----------------------------------------------------------------------------
(* The driver, the status register and the two threads of an activation    *)

\* The device of a VM that nobody activates (dispatch-loop specification).
ActIdle ==
    /\ dev_kind = "block"
    /\ dev = NewDevice("block")
    /\ device_status = {}
    /\ act_pc = "idle"
    /\ act_result = ResNone
    /\ act_calls = 0
    /\ pending_handler = NoHandler
    /\ subscribers = <<>>
    /\ fd_raised = {}
    /\ pre = NewDevice("block")
    /\ pre_subs = <<>>
    /\ last_prepare = [res |-> ResNone, ioevents |-> <<>>]
    /\ queue_cfg = NewQueues("block")
    /\ handler_queues = <<>>

ActInit ==
    /\ dev_kind \in Kinds
    /\ dev = NewDevice(dev_kind)
    /\ device_status = {}
    /\ act_pc = "idle"
    /\ act_result = ResNone
    /\ act_calls = 0
    /\ pending_handler = NoHandler
    /\ subscribers = <<>>
    /\ fd_raised = {}
    /\ pre = NewDevice(dev_kind)
    /\ pre_subs = <<>>
    /\ last_prepare = [res |-> ResNone, ioevents |-> <<>>]
    /\ queue_cfg = NewQueues(dev_kind)
    /\ handler_queues = <<>>

\* The driver writes a word of its features; the write counts between
\* DRIVER and FEATURES_OK only, and the words accumulate.
DriverWriteFeatures ==
    /\ act_pc = "idle"
    /\ STATUS_DRIVER \in device_status
    /\ device_status \cap {STATUS_FEATURES_OK, STATUS_FAILED} = {}
    /\ \E w \in FeatureWrites :
          dev' = [dev EXCEPT !.features = @ \cup w]
    /\ UNCHANGED <<dev_kind, device_status, act_pc, act_result, act_calls,
                   pending_handler, subscribers, fd_raised, pre, pre_subs,
                   last_prepare, queue_cfg,
                   handler_queues>>

\* The steps of the status register before DRIVER_OK, and the reset.
StatusStep(status, v) ==
    \/ v = {}
    \/ status = {} /\ v = {STATUS_ACKNOWLEDGE}
    \/ status = {STATUS_ACKNOWLEDGE}
          /\ v = {STATUS_ACKNOWLEDGE, STATUS_DRIVER}
    \/ status = {STATUS_ACKNOWLEDGE, STATUS_DRIVER}
          /\ v = {STATUS_ACKNOWLEDGE, STATUS_DRIVER, STATUS_FEATURES_OK}

StatusWrites ==
    {{}, {STATUS_ACKNOWLEDGE}, {STATUS_ACKNOWLEDGE, STATUS_DRIVER},
     {STATUS_ACKNOWLEDGE, STATUS_DRIVER, STATUS_FEATURES_OK}}

\* The driver writes the status register: a step of the initialisation
\* sequence, or 0 (reset; reset() of every device kind does nothing).
DriverWriteStatus ==
    /\ act_pc = "idle"
    /\ \E v \in StatusWrites :
          /\ StatusStep(device_status, v)
          /\ device_status' = v
    /\ UNCHANGED <<dev_kind, dev, act_pc, act_result, act_calls,
                   pending_handler, subscribers, fd_raised, pre, pre_subs,
                   last_prepare, queue_cfg,
                   handler_queues>>

\* The status after activate() returned res: FAILED is set on an error.
StatusAfter(status, res) ==
    IF res.tag = "Err" THEN status \cup {STATUS_FAILED} ELSE status

\* The driver sets DRIVER_OK: the device's activate() runs on the dispatch
\* thread until it returns, panics or waits for the event manager.
DriverOk ==
    /\ act_pc = "idle"
    /\ act_calls < MaxActivations
    /\ device_status =
          {STATUS_ACKNOWLEDGE, STATUS_DRIVER, STATUS_FEATURES_OK}
    /\ \E tap_ok \in (IF UsesTap(dev_kind) THEN BOOLEAN ELSE {TRUE}) :
          LET out == Activate(dev_kind, dev, tap_ok)
          IN /\ dev' = out.dev
             /\ last_prepare' = [res |-> out.prep.res,
                                  ioevents |-> out.prep.ioevents]
             /\ pending_handler' = out.handler
             /\ act_result' = out.res
             /\ act_pc' = CASE out.res.tag = "call_blocking" -> "waiting"
                            [] out.res.tag = "panic" -> "dead"
                            [] OTHER -> "idle"
             /\ device_status' =
                   StatusAfter(device_status \cup {STATUS_DRIVER_OK}, out.res)
             /\ handler_queues' =
                   IF out.res.tag \in {"Ok", "call_blocking"}
                   THEN CapturedQueues(out, queue_cfg)
                   ELSE handler_queues
    /\ act_calls' = act_calls + 1
    /\ pre' = dev
    /\ pre_subs' = subscribers
    /\ UNCHANGED <<dev_kind, subscribers, fd_raised, queue_cfg>>

\* The event-manager thread runs the closure of call_blocking:
\* mgr.add_subscriber(handler), and answers.
EvtAddSubscriber ==
    /\ act_pc = "waiting"
    /\ subscribers' = Append(subscribers, pending_handler)
    /\ pending_handler' = NoHandler
    /\ act_pc' = "added"
    /\ UNCHANGED <<dev_kind, dev, device_status, act_result, act_calls,
                   fd_raised, pre, pre_subs, last_prepare, queue_cfg,
                   handler_queues>>

\* A finalize_activate that does not wait for the answer of the event loop.
ActivateResume_NoWait ==
    /\ act_pc = "waiting"
    /\ dev' = [dev EXCEPT !.activated = TRUE]
    /\ act_result' = ResOk
    /\ act_pc' = "idle"
    /\ UNCHANGED <<dev_kind, device_status, act_calls, pending_handler,
                   subscribers, fd_raised, pre, pre_subs, last_prepare,
                   queue_cfg, handler_queues>>

\* finalize_activate after the remote call: device_activated = true, Ok(()).
ActivateResume ==
    /\ act_pc = "added"
    /\ dev' = [dev EXCEPT !.activated = TRUE]
    /\ act_result' = ResOk
    /\ act_pc' = "idle"
    /\ UNCHANGED <<dev_kind, device_status, act_calls, pending_handler,
                   subscribers, fd_raised, pre, pre_subs, last_prepare,
                   queue_cfg, handler_queues>>

\* The driver writes an address register of the queue it selected; the
\* device takes the write between FEATURES_OK and DRIVER_OK, for a queue the
\* configuration still holds.
DriverWriteQueueAddr ==
    /\ act_pc = "idle"
    /\ STATUS_FEATURES_OK \in device_status
    /\ device_status \cap {STATUS_DRIVER_OK, STATUS_FAILED} = {}
    /\ \E sel \in QueueSels, f \in QueueFields :
          /\ sel < Len(dev.queues)
          /\ queue_cfg' = [queue_cfg EXCEPT ![dev.queues[sel + 1]][f] = 1]
    /\ handler_queues' = HeldQueues(handler_queues, queue_cfg')
    /\ UNCHANGED <<dev_kind, dev, device_status, act_pc, act_result,
                   act_calls, pending_handler, subscribers, fd_raised, pre,
                   pre_subs, last_prepare>>

\* The eventfds the hypervisor raises for a guest write of val at addr.
KickTargets(regs, addr, val) ==
    {r.fd : r \in {x \in regs :
                     /\ x.addr = addr
                     /\ (x.flags = BAO_IOEVENTFD_FLAG_DATAMATCH => x.data = val)}}

\* The guest writes a queue index to QueueNotify.
GuestKick ==
    /\ dev.regs # {}
    /\ \E q \in KickValues :
          fd_raised' = fd_raised \cup
              KickTargets(dev.regs,
                          MmioBase + VIRTIO_MMIO_QUEUE_NOTIFY_OFFSET, q)
    /\ UNCHANGED <<dev_kind, dev, device_status, act_pc, act_result,
                   act_calls, pending_handler, subscribers, pre, pre_subs,
                   last_prepare, queue_cfg,
                   handler_queues>>
-----------------------------------------------------------------------------
(* The block queue handler, the used-queue signalling and the driver       *)

\* Head indices the driver uses for its chains.
HeadIndexes ==
    {0, 1, 2}

\* Byte counts the disk backend reports for a request it executed.
DiskLens ==
    {1, 512}

\* What StdIoBackend::process_request returns.
DiskResults ==
    {[tag |-> "Ok", len |-> l] : l \in DiskLens}
        \cup {[tag |-> "Err", len |-> 0]}

NoChain ==
    [head |-> 0, parse_ok |-> FALSE]

\* Heads of the chains the driver owns no more and has not got back.
InFlight ==
    {avail[i].head : i \in (Len(used) + 1)..Len(avail)}

\* The events epoll reports for the ioeventfd (registered with EventSet::IN
\* and IOEVENT_DATA, level triggered).
PendingEvents(counter) ==
    IF counter > 0
    THEN {[event_set |-> "IN", data |-> IOEVENT_DATA]}
    ELSE {}

\* The chain of checks at the head of QueueHandler::process, up to and
\* including ioeventfd.read() (which fails on a counter of 0).
EntryOk(ev, counter) ==
    /\ ev.event_set = "IN"
    /\ ev.data = IOEVENT_DATA
    /\ counter > 0

\* The handler with its ioeventfd in the event loop, before any kick
\* (QueueHandler::init).
BlkStart(registered) ==
    /\ blk_pc = "epoll"
    /\ blk_registered = registered
    /\ blk_last = "none"
    /\ avail = <<>>
    /\ next_avail = 0
    /\ cur_chain = NoChain
    /\ used = <<>>
    /\ no_notify = FALSE
    /\ interrupt_status = {}
    /\ irqfd = 0
    /\ ioeventfd = 0
    /\ sig_or_done = FALSE
    /\ acked = FALSE
    /\ reports = <<>>
    /\ at_kick = [avail |-> 0, next |-> 0, irq |-> 0]

\* The error branch of process: ops.remove(events).
BlkFail ==
    /\ blk_registered' = FALSE
    /\ blk_last' = "error"
    /\ blk_pc' = "epoll"

\* QueueHandler::process is entered for an event of the ioeventfd.
BlkProcess ==
    /\ blk_pc = "epoll"
    /\ blk_registered
    /\ \E ev \in PendingEvents(ioeventfd) :
          IF EntryOk(ev, ioeventfd)
          THEN /\ ioeventfd' = 0
               /\ blk_pc' = "disable"
               /\ at_kick' = [avail |-> Len(avail), next |-> next_avail,
                              irq |-> irqfd]
               /\ UNCHANGED <<blk_registered, blk_last>>
          ELSE /\ BlkFail
               /\ UNCHANGED <<ioeventfd, at_kick>>
    /\ UNCHANGED <<avail, next_avail, cur_chain, used, no_notify,
                   interrupt_status, irqfd, sig_or_done, acked, reports>>

\* process_queue: queue.disable_notification.
BlkDisableNotification ==
    /\ blk_pc = "disable"
    /\ no_notify' = TRUE
    /\ blk_pc' = "iter"
    /\ UNCHANGED <<blk_registered, blk_last, avail, next_avail, cur_chain,
                   used, interrupt_status, irqfd, ioeventfd, sig_or_done,
                   acked, reports, at_kick>>

\* A process_queue that signals the driver for a chain as soon as it is taken.
BlkIterNext_SignalFirst ==
    /\ blk_pc = "iter"
    /\ IF next_avail < Len(avail)
       THEN /\ cur_chain' = avail[next_avail + 1]
            /\ next_avail' = next_avail + 1
            /\ blk_pc' = "signal"
       ELSE /\ blk_pc' = "enable"
            /\ UNCHANGED <<cur_chain, next_avail>>
    /\ UNCHANGED <<blk_registered, blk_last, avail, used, no_notify,
                   interrupt_status, irqfd, ioeventfd, sig_or_done, acked,
                   reports, at_kick>>

\* process_queue: queue.iter(..).next() takes the next available chain, if
\* there is one.
BlkIterNext ==
    /\ blk_pc = "iter"
    /\ IF next_avail < Len(avail)
       THEN /\ cur_chain' = avail[next_avail + 1]
            /\ next_avail' = next_avail + 1
            /\ blk_pc' = "chain"
       ELSE /\ blk_pc' = "enable"
            /\ UNCHANGED <<cur_chain, next_avail>>
    /\ UNCHANGED <<blk_registered, blk_last, avail, used, no_notify,
                   interrupt_status, irqfd, ioeventfd, sig_or_done, acked,
                   reports, at_kick>>

\* A process_chain that reports no length at all.
UsedLen_Zero(c, r) ==
    0

\* process_chain: the length of the used entry.
UsedLen(c, r) ==
    IF c.parse_ok THEN r.len ELSE 0

\* A used-ring element.
AddUsed(head_index, len) ==
    [id |-> head_index, len |-> len]

\* Queue::needs_notification with VIRTIO_F_RING_EVENT_IDX not negotiated.
NeedsNotification(event_idx) ==
    ~event_idx

\* process_chain up to needs_notification: parse the request, run it on the
\* disk, add the used entry.
BlkProcessChain ==
    /\ blk_pc = "chain"
    /\ \E r \in (IF cur_chain.parse_ok THEN DiskResults
                 ELSE {[tag |-> "none", len |-> 0]}) :
          IF r.tag = "Err"
          THEN /\ BlkFail
               /\ reports' = Append(reports, -1)
               /\ UNCHANGED used
          ELSE /\ used' = Append(used,
                              AddUsed(cur_chain.head, UsedLen(cur_chain, r)))
               /\ reports' = Append(reports,
                                 IF r.tag = "Ok" THEN r.len ELSE -1)
               /\ blk_pc' = IF NeedsNotification(FALSE) THEN "signal"
                            ELSE "iter"
               /\ UNCHANGED <<blk_registered, blk_last>>
    /\ UNCHANGED <<avail, next_avail, cur_chain, no_notify, interrupt_status,
                   irqfd, ioeventfd, sig_or_done, acked, at_kick>>

\* A signal_used_queue that writes the irqfd first.
SignalUsedQueue_WriteFirst ==
    <<"write", "fetch_or">>

\* SingleFdSignalQueue::signal_used_queue: its two operations, in order.
SignalUsedQueue ==
    <<"fetch_or", "write">>

\* One operation of signal_used_queue.
SignalOp(op) ==
    IF op = "fetch_or"
    THEN /\ interrupt_status' = interrupt_status \cup {VIRTIO_MMIO_INT_VRING}
         /\ sig_or_done' = TRUE
         /\ acked' = FALSE
         /\ UNCHANGED irqfd
    ELSE /\ irqfd' = irqfd + 1
         /\ UNCHANGED <<interrupt_status, sig_or_done, acked>>

BlkSignalFirst ==
    /\ blk_pc = "signal"
    /\ SignalOp(SignalUsedQueue[1])
    /\ blk_pc' = "signal2"
    /\ UNCHANGED <<blk_registered, blk_last, avail, next_avail, cur_chain,
                   used, no_notify, ioeventfd, reports, at_kick>>

BlkSignalSecond ==
    /\ blk_pc = "signal2"
    /\ SignalOp(SignalUsedQueue[2])
    /\ blk_pc' = "signalled"
    /\ UNCHANGED <<blk_registered, blk_last, avail, next_avail, cur_chain,
                   used, no_notify, ioeventfd, reports, at_kick>>

\* signal_used_queue and process_chain return; back to the while loop.
BlkChainDone ==
    /\ blk_pc = "signalled"
    /\ sig_or_done' = FALSE
    /\ blk_pc' = "iter"
    /\ UNCHANGED <<blk_registered, blk_last, avail, next_avail, cur_chain,
                   used, no_notify, interrupt_status, irqfd, ioeventfd, acked,
                   reports, at_kick>>

\* process_queue: queue.enable_notification, which answers whether chains
\* arrived in the meantime; process returns when none did.
BlkEnableNotification ==
    /\ blk_pc = "enable"
    /\ no_notify' = FALSE
    /\ IF next_avail # Len(avail)
       THEN /\ blk_pc' = "disable"
            /\ UNCHANGED blk_last
       ELSE /\ blk_pc' = "epoll"
            /\ blk_last' = "ok"
    /\ UNCHANGED <<blk_registered, avail, next_avail, cur_chain, used,
                   interrupt_status, irqfd, ioeventfd, sig_or_done, acked,
                   reports, at_kick>>

\* The driver makes a chain available: a block request the device can parse,
\* or one it cannot.
DriverAddChain ==
    /\ Len(avail) < MaxChains
    /\ \E h \in HeadIndexes \ InFlight, ok \in BOOLEAN :
          avail' = Append(avail, [head |-> h, parse_ok |-> ok])
    /\ UNCHANGED <<blk_pc, blk_registered, blk_last, next_avail, cur_chain,
                   used, no_notify, interrupt_status, irqfd, ioeventfd,
                   sig_or_done, acked, reports, at_kick>>

\* The driver writes QueueNotify and the hypervisor raises the ioeventfd.
DriverKick ==
    /\ ioeventfd < MaxKicks
    /\ ioeventfd' = ioeventfd + 1
    /\ UNCHANGED <<blk_pc, blk_registered, blk_last, avail, next_avail,
                   cur_chain, used, no_notify, interrupt_status, irqfd,
                   sig_or_done, acked, reports, at_kick>>

\* The driver writes the used-buffer bit to InterruptACK.
DriverAck ==
    /\ VIRTIO_MMIO_INT_VRING \in interrupt_status
    /\ interrupt_status' = interrupt_status \ {VIRTIO_MMIO_INT_VRING}
    /\ acked' = TRUE
    /\ UNCHANGED <<blk_pc, blk_registered, blk_last, avail, next_avail,
                   cur_chain, used, no_notify, irqfd, ioeventfd, sig_or_done,
                   reports, at_kick>>

\* The block device of a VM after its activation completed.
ActBlockActive ==
    LET d0 == [NewDevice("block") EXCEPT !.features = {VIRTIO_F_VERSION_1}]
        out == ActivateBlock(d0)
    IN /\ dev_kind = "block"
       /\ dev = [out.dev EXCEPT !.activated = TRUE]
       /\ device_status = {STATUS_ACKNOWLEDGE, STATUS_DRIVER,
                           STATUS_FEATURES_OK, STATUS_DRIVER_OK}
       /\ act_pc = "idle"
       /\ act_result = ResOk
       /\ act_calls = 1
       /\ pending_handler = NoHandler
       /\ subscribers = <<out.handler>>
       /\ fd_raised = {}
       /\ pre = d0
       /\ pre_subs = <<>>
       /\ last_prepare = [res |-> out.prep.res, ioevents |-> out.prep.ioevents]
       /\ queue_cfg = NewQueues("block")
       /\ handler_queues = CapturedQueues(out, NewQueues("block"))

-----------------------------------------------------------------------------
(* The event loop of a VM and the process() of the queue handlers          *)

\* Handlers an activation can hand to the event loop (the console never
\* gets that far: its activate() panics on its empty queue vector).
HandlerKinds ==
    {"block", "net", "vsock"}

\* The file descriptors a handler registers in init.
HandlerFds(k) ==
    CASE k = "block" -> {"ioeventfd"}
      [] k = "net" -> {"tap", "rx", "tx"}
      [] k = "vsock" -> {"q0", "q1", "q2"}

\* The datum each descriptor is registered with.
FdData(fd) ==
    CASE fd \in {"ioeventfd", "tap", "q0"} -> 0
      [] fd \in {"rx", "q1"} -> 1
      [] fd \in {"tx", "q2"} -> 2

\* The vsock handler's vector of ioeventfds after init drained it.
DrainedIoeventfd ==
    <<>>

\* Descriptors that init closes: the vsock init moves every EventFd out of
\* its vector and drops it after ops.add.
ClosedByInit(k) ==
    IF k = "vsock" THEN HandlerFds(k) ELSE {}

\* Event sets epoll may report for a registered descriptor.
EventSets ==
    {"IN", "ERR"}

\* What a process() call does: the ops.remove calls it makes, in order, the
\* descriptors it reads, and the branch it took ("ok" if none failed).
Did(removes, reads, path) ==
    [removes |-> removes, reads |-> reads, path |-> path]

\* block QueueHandler::process.
ProcessBlock(ev, read_ok, queue_ok) ==
    CASE ev.event_set # "IN" -> Did(<<ev.fd>>, {}, "event_set")
      [] ev.data # IOEVENT_DATA -> Did(<<ev.fd>>, {}, "data")
      [] ~read_ok -> Did(<<ev.fd>>, {}, "read")
      [] ~queue_ok -> Did(<<ev.fd>>, {ev.fd}, "queue")
      [] OTHER -> Did(<<>>, {ev.fd}, "ok")

\* net QueueHandler::handle_error: the three removals.
NetHandleError ==
    <<"rx", "tx", "tap">>

\* net QueueHandler::process.
ProcessNet(ev, read_ok, queue_ok) ==
    CASE ev.event_set # "IN" -> Did(NetHandleError, {}, "event_set")
      [] ev.data = FdData("tap") ->
            IF queue_ok THEN Did(<<>>, {"tap"}, "ok")
            ELSE Did(NetHandleError, {"tap"}, "queue")
      [] ev.data = FdData("rx") ->
            IF ~read_ok THEN Did(NetHandleError, {}, "read")
            ELSE IF ~queue_ok THEN Did(NetHandleError, {"rx"}, "queue")
            ELSE Did(<<>>, {"rx"}, "ok")
      [] ev.data = FdData("tx") ->
            Did((IF read_ok THEN <<>> ELSE NetHandleError)
                    \o (IF queue_ok THEN <<>> ELSE NetHandleError),
                IF read_ok THEN {"tx"} ELSE {},
                IF ~read_ok THEN "read"
                ELSE IF ~queue_ok THEN "queue" ELSE "ok")
      [] OTHER -> Did(NetHandleError, {}, "data")

\* vsock QueueHandler::process (it never reads the ioeventfd).
ProcessVsock(ev, read_ok, queue_ok) ==
    CASE ev.event_set # "IN" -> Did(<<ev.fd>>, {}, "event_set")
      [] ev.data >= Len(DrainedIoeventfd) -> Did(<<ev.fd>>, {}, "data")
      [] ~queue_ok -> Did(<<ev.fd>>, {}, "queue")
      [] OTHER -> Did(<<>>, {}, "ok")

\* MutEventSubscriber::process of the handler kind k.
Process(k, ev, read_ok, queue_ok) ==
    CASE k = "block" -> ProcessBlock(ev, read_ok, queue_ok)
      [] k = "net" -> ProcessNet(ev, read_ok, queue_ok)
      [] k = "vsock" -> ProcessVsock(ev, read_ok, queue_ok)

\* Whether a process() call reaches the function that works on the queue
\* (or the TAP) of the event: process_queue, process_tap, process_rxq,
\* process_txq.  The net handler calls process_txq whatever the read of the
\* TX ioeventfd returned.
QueueRan(k, ev, read_ok) ==
    CASE ev.event_set # "IN" -> FALSE
      [] k = "block" -> ev.data = IOEVENT_DATA /\ read_ok
      [] k = "net" /\ ev.data = FdData("rx") -> read_ok
      [] k = "net" -> ev.data \in {FdData("tap"), FdData("tx")}
      [] k = "vsock" -> ev.data < Len(DrainedIoeventfd)

\* The ops.remove(..).expect(..) calls of one process(): a removal of a
\* descriptor that is not registered, or that is closed, fails and the expect
\* panics; the removals after it do not happen.
RECURSIVE ApplyRemoves(_, _, _)
ApplyRemoves(interest, closed, removes) ==
    IF removes = <<>>
    THEN [interest |-> interest, panic |-> FALSE]
    ELSE IF Head(removes) \notin interest \/ Head(removes) \in closed
    THEN [interest |-> interest, panic |-> TRUE]
    ELSE ApplyRemoves(interest \ {Head(removes)}, closed, Tail(removes))

\* The event loop with the handler of kind k, after init (registered) or
\* before the handler exists.
EvtStart(k, registered) ==
    /\ evt_kind = k
    /\ evt_interest = IF registered THEN HandlerFds(k) ELSE {}
    /\ evt_closed = IF registered THEN ClosedByInit(k) ELSE {}
    /\ evt_ready = {}
    /\ evt_thread = "running"
    /\ evt_failed = FALSE
    /\ evt_path = "none"
    /\ evt_served = 0
    /\ evt_last = [fd |-> "none"]

\* A registered descriptor becomes readable: a guest kick raised the
\* ioeventfd, or a frame arrived on the TAP.
EvtKick ==
    /\ \E fd \in evt_interest \ evt_ready :
          evt_ready' = evt_ready \cup {fd}
    /\ UNCHANGED <<evt_kind, evt_interest, evt_closed, evt_thread, evt_failed,
                   evt_path, evt_served, evt_last>>

\* EventManager::run delivers one ready descriptor to the handler's process.
EvtProcess ==
    /\ evt_thread = "running"
    /\ evt_served < MaxEvents
    /\ \E fd \in evt_ready \cap evt_interest, es \in EventSets,
          read_ok \in BOOLEAN, queue_ok \in BOOLEAN :
          LET ev == [fd |-> fd, event_set |-> es, data |-> FdData(fd)]
              did == Process(evt_kind, ev, read_ok, queue_ok)
              after == ApplyRemoves(evt_interest, evt_closed, did.removes)
          IN /\ evt_interest' = after.interest
             /\ evt_thread' = IF after.panic THEN "panicked" ELSE "running"
             /\ evt_ready' = evt_ready \ did.reads
             /\ evt_failed' = (evt_failed \/ did.path # "ok")
             /\ evt_path' = did.path
             /\ evt_last' = [fd |-> fd, event_set |-> es, read_ok |-> read_ok,
                              removes |-> did.removes,
                              ran |-> QueueRan(evt_kind, ev, read_ok)]
    /\ evt_served' = evt_served + 1
    /\ UNCHANGED <<evt_kind, evt_closed>>

-----------------------------------------------------------------------------
(* The VMM: construction, the threads of each VM, shutdown (vmm.rs, main.rs) *)

\* Dataplanes a device configuration may name.
DataPlanes ==
    {"virtio", "vhost", "vhost_user"}

\* The device lists of a configuration file: up to MaxVms devices.
RECURSIVE Configs(_)
Configs(n) ==
    IF n = 0
    THEN {<<>>}
    ELSE Configs(n - 1)
            \cup {Append(c, dp) : c \in {x \in Configs(n - 1) : Len(x) = n - 1},
                                  dp \in DataPlanes}

\* Vm::new for the i-th device of the configuration: the event manager exists
\* if the dataplane is "virtio"; the backend is created through fd.
NewVm(i, dp, fd_state) ==
    [id |-> i, data_plane |-> dp, event_manager |-> (dp = "virtio"),
     fd_open |-> (fd_state = "open")]

\* The process before main() has opened anything.
VmmStart(c) ==
    /\ cfg = c
    /\ vmm_pc = "try_from"
    /\ ctl_fd = "unopened"
    /\ ctl_opens = 0
    /\ vms = <<>>
    /\ backends = <<>>
    /\ threads = <<>>
    /\ vcpus = <<>>
    /\ process = "running"

\* A panic on the main thread ends the process.
MainPanic ==
    /\ vmm_pc' = "panicked"
    /\ process' = "exited"

\* Vmm::try_from opens /dev/bao (an error is unwrapped by main).
VmmOpen ==
    /\ process = "running"
    /\ vmm_pc = "try_from"
    /\ \E open_ok \in BOOLEAN :
          IF open_ok
          THEN /\ ctl_fd' = "open"
               /\ ctl_opens' = ctl_opens + 1
               /\ vmm_pc' = "creating"
               /\ UNCHANGED process
          ELSE /\ MainPanic
               /\ UNCHANGED <<ctl_fd, ctl_opens>>
    /\ UNCHANGED <<cfg, vms, backends, threads, vcpus>>

\* Vmm::try_from creates the next VM: Vm::new(vmm.fd, config).unwrap(), whose
\* BaoDeviceModel::new issues the create-backend ioctl on fd.
VmmCreateVm ==
    /\ process = "running"
    /\ vmm_pc = "creating"
    /\ Len(vms) < Len(cfg)
    /\ \E create_ok \in BOOLEAN :
          IF create_ok
          THEN /\ vms' = Append(vms, NewVm(Len(vms) + 1, cfg[Len(vms) + 1],
                                           ctl_fd))
               /\ backends' = Append(backends, "created")
               /\ UNCHANGED <<vmm_pc, process, ctl_fd>>
          ELSE /\ MainPanic
               /\ ctl_fd' = "closed"
               /\ UNCHANGED <<vms, backends>>
    /\ UNCHANGED <<cfg, ctl_opens, threads, vcpus>>

\* Vmm::try_from returns: the local File `fd` is dropped, which closes the
\* descriptor whose number stays in Vmm.fd.
VmmConstructed ==
    /\ process = "running"
    /\ vmm_pc = "creating"
    /\ Len(vms) = Len(cfg)
    /\ ctl_fd' = "closed"
    /\ vmm_pc' = "run"
    /\ UNCHANGED <<cfg, ctl_opens, vms, backends, threads, vcpus, process>>

\* The threads Vmm::run spawns for the VM i, in the order of their handles.
SpawnedFor(i) ==
    <<[vm |-> i, kind |-> "io", state |-> "spawned"],
      [vm |-> i, kind |-> "evm", state |-> "spawned"]>>

\* Vmm::run: the two threads of the next VM; after the last VM run returns,
\* main ends and the Vmm is dropped.
VmmSpawn ==
    /\ process = "running"
    /\ vmm_pc = "run"
    /\ LET i == Len(threads) \div 2 + 1
       IN IF i <= Len(vms)
          THEN /\ threads' = threads \o SpawnedFor(i)
               /\ vcpus' = vcpus \o <<Len(threads) + 1, Len(threads) + 2>>
               /\ UNCHANGED vmm_pc
          ELSE /\ vmm_pc' = "drop"
               /\ UNCHANGED <<threads, vcpus>>
    /\ UNCHANGED <<cfg, ctl_fd, ctl_opens, vms, backends, process>>

\* Drop for Vmm: pop the last handle and join it; join waits for the thread
\* and the unwrap panics if the thread panicked. With no handle left the
\* drop ends and the process exits.
VmmJoin ==
    /\ process = "running"
    /\ vmm_pc = "drop"
    /\ IF vcpus = <<>>
       THEN /\ vmm_pc' = "done"
            /\ process' = "exited"
            /\ UNCHANGED vcpus
       ELSE LET t == threads[vcpus[Len(vcpus)]]
            IN /\ t.state \in {"returned", "panicked"}
               /\ vcpus' = SubSeq(vcpus, 1, Len(vcpus) - 1)
               /\ IF t.state = "panicked"
                  THEN MainPanic
                  ELSE UNCHANGED <<vmm_pc, process>>
    /\ UNCHANGED <<cfg, ctl_fd, ctl_opens, vms, backends, threads>>

\* The thread vm_<id>_io enters run_io.
IoStart ==
    /\ process = "running"
    /\ \E t \in 1..Len(threads) :
          /\ threads[t].kind = "io"
          /\ threads[t].state = "spawned"
          /\ threads' = [threads EXCEPT ![t].state = "running"]
    /\ UNCHANGED <<cfg, vmm_pc, ctl_fd, ctl_opens, vms, backends, vcpus,
                   process>>

\* run_io returns an error and the closure's unwrap panics.
IoFail ==
    /\ process = "running"
    /\ \E t \in 1..Len(threads) :
          /\ threads[t].kind = "io"
          /\ threads[t].state = "running"
          /\ threads' = [threads EXCEPT ![t].state = "panicked"]
    /\ UNCHANGED <<cfg, vmm_pc, ctl_fd, ctl_opens, vms, backends, vcpus,
                   process>>

\* The thread vm_<id>_evm enters run_event_manager:
\* self.event_manager.as_ref().unwrap() panics on None.
EvmStart ==
    /\ process = "running"
    /\ \E t \in 1..Len(threads) :
          /\ threads[t].kind = "evm"
          /\ threads[t].state = "spawned"
          /\ threads' = [threads EXCEPT ![t].state =
                IF vms[threads[t].vm].event_manager THEN "running"
                ELSE "panicked"]
    /\ UNCHANGED <<cfg, vmm_pc, ctl_fd, ctl_opens, vms, backends, vcpus,
                   process>>

\* EventManager::run returns an error, or a handler panics: the unwrap ends
\* the event-loop thread.
EvmFail ==
    /\ process = "running"
    /\ \E t \in 1..Len(threads) :
          /\ threads[t].kind = "evm"
          /\ threads[t].state = "running"
          /\ threads' = [threads EXCEPT ![t].state = "panicked"]
    /\ UNCHANGED <<cfg, vmm_pc, ctl_fd, ctl_opens, vms, backends, vcpus,
                   process>>

-----------------------------------------------------------------------------
(* The MMIO bus of each VM (vm.rs, device.rs, mmio.rs) *)

\* mmio_addr values of a configuration: two ranges that overlap and one
\* that starts where the first ends.
MmioBases ==
    {MmioBase, MmioBase + 256, MmioBase + MMIO_RANGE_SIZE}

\* Device types a configuration may name (VirtioDevType::from); "console"
\* stands for every type add_device has no arm for.
DevTypes ==
    {"block", "fs", "vsock", "net", "console"}

\* The match of Vm::add_device over device type and dataplane: the variant
\* of VirtioDeviceType it builds, or the error.
AddDevice(device_type, data_plane) ==
    LET ok(variant) == [tag |-> "Ok", err |-> "none", arg |-> variant]
        wrong == [tag |-> "Err", err |-> "WrongDeviceConfiguration",
                  arg |-> <<device_type, data_plane>>]
    IN CASE device_type = "block" ->
              IF data_plane = "virtio" THEN ok("VirtioBlock") ELSE wrong
         [] device_type = "fs" ->
              IF data_plane = "vhost_user" THEN ok("VhostUserFs") ELSE wrong
         [] device_type = "vsock" ->
              IF data_plane = "vhost" THEN ok("VhostVsock")
              ELSE IF data_plane = "vhost_user" THEN ok("VhostUserVsock")
              ELSE wrong
         [] device_type = "net" ->
              IF data_plane = "virtio" THEN ok("VirtioNet")
              ELSE IF data_plane = "vhost" THEN ok("VhostNet")
              ELSE wrong
         [] OTHER -> wrong

\* The device lists of a configuration file: type, dataplane and mmio_addr
\* of up to n devices.
RECURSIVE DeviceConfigs(_)
DeviceConfigs(n) ==
    IF n = 0
    THEN {<<>>}
    ELSE DeviceConfigs(n - 1)
            \cup {Append(c, [device_type |-> k, data_plane |-> dp,
                              mmio_addr |-> a]) :
                    c \in {x \in DeviceConfigs(n - 1) : Len(x) = n - 1},
                    k \in DevTypes, dp \in DataPlanes, a \in MmioBases}

\* MmioRange::new: a range needs a size; the modelled bases are far from the
\* end of the address space.
MmioRangeNew(base, size) ==
    IF size = 0
    THEN ResErr("InvalidRange", {})
    ELSE [tag |-> "Ok", err |-> "none", arg |-> [base |-> base, size |-> size]]

\* A device that registers only the first half of its register window.
DeviceRange_HalfWindow(config) ==
    MmioRangeNew(config.mmio_addr, MMIO_RANGE_SIZE \div 2)

\* VirtioDeviceCommon::new: MmioConfig::new(config.mmio_addr, 0x200, irq).
DeviceRange(config) ==
    MmioRangeNew(config.mmio_addr, MMIO_RANGE_SIZE)

\* Two ranges share an address.
Overlaps(r1, r2) ==
    /\ r1.base < r2.base + r2.size
    /\ r2.base < r1.base + r1.size

\* IoManager::register_mmio: DeviceOverlap if the range overlaps a
\* registered one, and then the bus is as before.
RegisterMmio(bus, range, device) ==
    IF \E e \in bus : Overlaps(e.range, range)
    THEN [res |-> ResErr("DeviceOverlap", {}), bus |-> bus]
    ELSE [res |-> ResOk,
          bus |-> bus \cup {[range |-> range, device |-> device]}]

\* Before the first Vm::new.
BusStart(c) ==
    /\ dev_cfg = c
    /\ device_manager = <<>>
    /\ bus_pc = IF c = <<>> THEN "done" ELSE "new"
    /\ add_result = ResNone

\* Vm::new creates the device manager of the next VM: IoManager::new().
VmNewDeviceManager ==
    /\ bus_pc = "new"
    /\ device_manager' = Append(device_manager, {})
    /\ bus_pc' = "add_device"
    /\ UNCHANGED <<dev_cfg, add_result>>

\* Vm::new adds the one device of the VM: add_device matches type and
\* dataplane and unwraps the result; the new() of the device it builds makes
\* its range and registers itself, both results unwrapped.
VmAddDevice ==
    /\ bus_pc = "add_device"
    /\ LET vm == Len(device_manager)
           config == dev_cfg[vm]
           device == AddDevice(config.device_type, config.data_plane)
           range == DeviceRange(config)
           reg == RegisterMmio(device_manager[vm], range.arg, vm)
       IN /\ add_result' = device
          /\ IF device.tag = "Ok" /\ range.tag = "Ok" /\ reg.res = ResOk
             THEN /\ device_manager' = [device_manager EXCEPT ![vm] = reg.bus]
                  /\ bus_pc' = IF vm < Len(dev_cfg) THEN "new" ELSE "done"
             ELSE /\ bus_pc' = "panicked"
                  /\ UNCHANGED device_manager
    /\ UNCHANGED dev_cfg

-----------------------------------------------------------------------------
(* The ioctl request codes of the hypervisor ABI (ioctl.rs, types.rs) *)

\* Sizes in bytes of the fields of the request payloads, in declaration
\* order (#[repr(C)]).
BaoIoRequestFields ==
    <<8, 8, 8, 8, 8, 8, 8, 8, 4>>

BaoIoEventFdFields ==
    <<4, 4, 8, 4, 4, 8>>

BaoIrqFdFields ==
    <<4, 4>>

U32Fields ==
    <<4>>

\* n rounded up to a multiple of a.
AlignUp(n, a) ==
    ((n + a - 1) \div a) * a

\* The offset after the fields of a #[repr(C)] struct: each field starts at
\* a multiple of its own size.
RECURSIVE EndOfFields(_)
EndOfFields(fields) ==
    IF fields = <<>>
    THEN 0
    ELSE LET f == fields[Len(fields)]
         IN AlignUp(EndOfFields(SubSeq(fields, 1, Len(fields) - 1)), f) + f

RECURSIVE MaxField(_)
MaxField(fields) ==
    IF fields = <<>>
    THEN 1
    ELSE LET m == MaxField(Tail(fields))
         IN IF Head(fields) > m THEN Head(fields) ELSE m

\* A layout that leaves out the padding at the end of the struct.
SizeOf_NoTailPadding(fields) ==
    EndOfFields(fields)

\* std::mem::size_of of a #[repr(C)] struct: the end of the fields, rounded
\* up to the largest field alignment.
SizeOf(fields) ==
    IF fields = <<>> THEN 0 ELSE AlignUp(EndOfFields(fields), MaxField(fields))

\* The arguments of each ioctl_ioc_nr! definition: direction bits
\* (_IOC_NONE = 0, _IOC_WRITE = 1, _IOC_READ = 2, WRITE | READ = 3), number
\* and payload.
IoctlDefs ==
    <<[name |-> "BAO_IOCTL_VM_VIRTIO_BACKEND_CREATE", dir |-> 1, nr |-> 1,
       payload |-> U32Fields],
      [name |-> "BAO_IOCTL_VM_VIRTIO_BACKEND_DESTROY", dir |-> 1, nr |-> 2,
       payload |-> U32Fields],
      [name |-> "BAO_IOCTL_IO_CREATE_CLIENT", dir |-> 0, nr |-> 3,
       payload |-> <<>>],
      [name |-> "BAO_IOCTL_IO_DESTROY_CLIENT", dir |-> 0, nr |-> 4,
       payload |-> <<>>],
      [name |-> "BAO_IOCTL_IO_ATTACH_CLIENT", dir |-> 0, nr |-> 5,
       payload |-> <<>>],
      [name |-> "BAO_IOCTL_IO_REQUEST", dir |-> 3, nr |-> 6,
       payload |-> BaoIoRequestFields],
      [name |-> "BAO_IOCTL_IO_REQUEST_NOTIFY_COMPLETED", dir |-> 1, nr |-> 7,
       payload |-> BaoIoRequestFields],
      [name |-> "BAO_IOCTL_IO_NOTIFY_GUEST", dir |-> 0, nr |-> 8,
       payload |-> <<>>],
      [name |-> "BAO_IOCTL_IOEVENTFD", dir |-> 1, nr |-> 9,
       payload |-> BaoIoEventFdFields],
      [name |-> "BAO_IOCTL_IRQFD", dir |-> 1, nr |-> 10,
       payload |-> BaoIrqFdFields]>>

\* The bitwise or of two naturals below 2^w.
RECURSIVE BitOr(_, _, _)
BitOr(a, b, w) ==
    IF w = 0
    THEN 0
    ELSE (IF a % 2 = 1 \/ b % 2 = 1 THEN 1 ELSE 0)
            + 2 * BitOr(a \div 2, b \div 2, w - 1)

\* x << n as a u32, x below 2^16: the two 16-bit limbs, least significant
\* first.
Shl32(x, n) ==
    IF n < 16
    THEN <<(x * 2 ^ n) % Limb, (x * 2 ^ n) \div Limb>>
    ELSE <<0, (x * 2 ^ (n - 16)) % Limb>>

Or32(a, b) ==
    <<BitOr(a[1], b[1], 16), BitOr(a[2], b[2], 16)>>

\* ioctl_ioc_nr!: (dir << 30) | (ty << 8) | nr | (size << 16).
IoctlCode(dir, ty, nr, size) ==
    Or32(Or32(Shl32(dir, 30), Shl32(ty, 8)),
         Or32(Shl32(nr, 0), Shl32(size, 16)))

\* The request code the function generated for definition d returns.
CodeOf(d) ==
    IoctlCode(d.dir, BAO_IOCTL_TYPE, d.nr, SizeOf(d.payload))

\* The constants test_ioctls expects, by number, as (low, high) limbs.
DeclaredCodes ==
    <<<<42497, 16388>>,   \* 0x4004_A601
      <<42498, 16388>>,   \* 0x4004_A602
      <<42499, 0>>,       \* 0x0000_A603
      <<42500, 0>>,       \* 0x0000_A604
      <<42501, 0>>,       \* 0x0000_A605
      <<42502, 49224>>,   \* 0xC048_A606
      <<42503, 16456>>,   \* 0x4048_A607
      <<42504, 0>>,       \* 0x0000_A608
      <<42505, 16416>>,   \* 0x4020_A609
      <<42506, 16392>>>>  \* 0x4008_A60A

\* No ioctl issued yet.
IoctlStart ==
    ioctl_log = <<>>

\* A caller (a method of BaoDeviceModel, test_ioctls) evaluates the function
\* ioctl_ioc_nr! generated for one definition.
IssueIoctl ==
    /\ Len(ioctl_log) < MaxIoctls
    /\ \E i \in 1..Len(IoctlDefs) :
          ioctl_log' = Append(ioctl_log,
                              [nr |-> IoctlDefs[i].nr,
                               code |-> CodeOf(IoctlDefs[i])])

-----------------------------------------------------------------------------
(* The interrupt status register of a device (device.rs, */device.rs) *)

\* Bits the driver may write to InterruptACK, as sets of bit values.
AckValues ==
    {{VIRTIO_MMIO_INT_VRING}, {VIRTIO_MMIO_INT_CONFIG},
     {VIRTIO_MMIO_INT_VRING, VIRTIO_MMIO_INT_CONFIG}}

\* The devices whose interrupt_status() is the one of the vhost devices.
VhostKinds ==
    {"net_vhost", "vsock_vhost", "fs_vhost_user"}

\* An interrupt_status() that hands out the register as it is for every
\* device.
InterruptStatusAccess_Plain(kind, status) ==
    status

\* interrupt_status() of the device, called by the MMIO transport for every
\* InterruptStatus read and InterruptACK write: the vhost devices first
\* fetch_or VIRTIO_MMIO_INT_VRING into the register, the others hand out
\* config.interrupt_status as it is.
InterruptStatusAccess(kind, status) ==
    IF kind \in VhostKinds
    THEN status \cup {VIRTIO_MMIO_INT_VRING}
    ELSE status

\* A device with DRIVER_OK set and no interrupt pending.
IrqStart(kind) ==
    /\ irq_kind = kind
    /\ int_status = {}
    /\ irq_log = <<>>

\* A used-buffer notification: the handlers in the VMM go through
\* signal_used_queue, which sets VIRTIO_MMIO_INT_VRING before it writes the
\* irqfd; a vhost backend writes the irqfd itself.
IrqSignalUsed ==
    /\ Len(irq_log) < MaxIrqOps
    /\ int_status' = IF irq_kind \in VhostKinds
                     THEN int_status
                     ELSE int_status \cup {VIRTIO_MMIO_INT_VRING}
    /\ irq_log' = Append(irq_log, [op |-> "signal", val |-> {},
                                   before |-> int_status,
                                   after |-> int_status'])
    /\ UNCHANGED irq_kind

\* The driver reads InterruptStatus: the load of interrupt_status().
IrqRead ==
    /\ Len(irq_log) < MaxIrqOps
    /\ int_status' = InterruptStatusAccess(irq_kind, int_status)
    /\ irq_log' = Append(irq_log, [op |-> "read", val |-> int_status',
                                   before |-> int_status,
                                   after |-> int_status'])
    /\ UNCHANGED irq_kind

\* The driver writes v to InterruptACK: interrupt_status().fetch_and(!v).
IrqAck ==
    /\ Len(irq_log) < MaxIrqOps
    /\ \E v \in AckValues :
          /\ int_status' = InterruptStatusAccess(irq_kind, int_status) \ v
          /\ irq_log' = Append(irq_log, [op |-> "ack", val |-> v,
                                         before |-> int_status,
                                         after |-> int_status'])
    /\ UNCHANGED irq_kind

-----------------------------------------------------------------------------
(* The guest memory of a device: map_region and mem (device.rs) *)

PageSize ==
    4 * 1024

\* shmem_addr and shmem_size values of a device configuration.
ShmemAddrs ==
    {p * PageSize : p \in 0..5}

ShmemSizes ==
    {p * PageSize : p \in 1..4}

\* The length map_region asks MmapRegion::build for.
MappedLen(base_addr, size) ==
    base_addr + size

\* map_region: the mapping of the file from mmap_offset and the guest region
\* made of it at GuestAddress(base_addr), or MmapGuestMemoryFailed.
MapRegion(mmap_offset, base_addr, size, mmap_ok) ==
    IF mmap_ok
    THEN [tag |-> "Ok", err |-> "none",
          arg |-> [file_offset |-> mmap_offset,
                   guest_base |-> base_addr,
                   len |-> MappedLen(base_addr, size)]]
    ELSE [tag |-> "Err", err |-> "MmapGuestMemoryFailed", arg |-> <<>>]

\* What mem() leaves in self.regions: regions.drain(..) takes them all.
MemRegionsLeft(regs) ==
    <<>>

\* Before VirtioDeviceCommon::new maps the shared memory of the device.
MemStart(addr, size) ==
    /\ mem_cfg = [shmem_addr |-> addr, shmem_size |-> size]
    /\ regions = <<>>
    /\ mem_pc = "new"
    /\ mem_log = <<>>

\* VirtioDeviceCommon::new: map_region(0, shmem_path, shmem_addr,
\* shmem_size).unwrap(), which pushes the region.
CommonMapRegion ==
    /\ mem_pc = "new"
    /\ \E mmap_ok \in BOOLEAN :
          LET r == MapRegion(0, mem_cfg.shmem_addr, mem_cfg.shmem_size,
                             mmap_ok)
          IN IF r.tag = "Ok"
             THEN /\ regions' = Append(regions, r.arg)
                  /\ mem_pc' = "mapped"
             ELSE /\ mem_pc' = "panicked"
                  /\ UNCHANGED regions
    /\ UNCHANGED <<mem_cfg, mem_log>>

\* A call of mem(): GuestMemoryMmap::from_regions of the drained regions,
\* unwrapped; from_regions refuses an empty list.
CommonMem ==
    /\ mem_pc = "mapped"
    /\ Len(mem_log) < MaxMemCalls
    /\ regions' = MemRegionsLeft(regions)
    /\ mem_log' = Append(mem_log, [before |-> regions, after |-> regions',
                                   ok |-> regions # <<>>])
    /\ mem_pc' = IF regions # <<>> THEN "mapped" ELSE "panicked"
    /\ UNCHANGED mem_cfg

-----------------------------------------------------------------------------
(* The DeviceModel mutex (vm.rs, device.rs) *)

\* The places that lock the DeviceModel, each for one method call:
\* VirtioDeviceCommon::new (register_irqfd, on the main thread), run_io
\* (attach_io_client, request_io, notify_io_completed) and the loop of
\* prepare_activate (register_ioeventfd, once per queue).
LockSites ==
    {"irqfd", "attach", "request", "ioeventfd", "notify"}

\* The thread that runs a site.
SiteThread(site) ==
    IF site = "irqfd" THEN "main" ELSE "io"

\* Numbers of queues of a device.
LockQueueNums ==
    {1, 2, 3}

\* A guard that lives until the loop of prepare_activate is over.
GuardDropped_AfterLoop(site, registered, queues) ==
    site # "ioeventfd" \/ registered = queues

\* The MutexGuard is a temporary of the statement that makes the call: it
\* is dropped when that statement ends, in the loop once per iteration.
GuardDropped(site, registered, queues) ==
    TRUE

\* Where a thread goes when the call of a site has returned Ok.
AfterSite(site, registered, queues) ==
    CASE site = "irqfd" -> "attach"
      [] site = "attach" -> "request"
      [] site = "request" -> "dispatch"
      [] site = "ioeventfd" ->
            IF registered < queues THEN "ioeventfd" ELSE "wait"
      [] site = "notify" -> "attach"

\* The device has its queues; nothing is locked.
LockStart(queues) ==
    /\ lk_pc = "irqfd"
    /\ lk_phase = "lock"
    /\ dm_holder = "none"
    /\ dm_held_calls = 0
    /\ lk_queues = queues
    /\ lk_registered = 0
    /\ lk_activated = FALSE
    /\ lk_iters = 0
    /\ lk_io_held = {}
    /\ lk_evm_held = {}

\* self.device_model.lock().unwrap() at a site.
LockAcquire ==
    /\ lk_pc \in LockSites
    /\ lk_phase = "lock"
    /\ dm_holder' = (IF dm_holder = "none" THEN SiteThread(lk_pc)
                     ELSE dm_holder)
    /\ dm_held_calls' = (IF dm_holder = "none" THEN 0 ELSE dm_held_calls)
    /\ lk_phase' = "call"
    /\ UNCHANGED <<lk_pc, lk_queues, lk_registered, lk_activated, lk_iters,
                   lk_io_held, lk_evm_held>>

\* The method of the DeviceModel called on the guard: one ABI call, which
\* may fail.
LockAbiCall ==
    /\ lk_pc \in LockSites
    /\ lk_phase = "call"
    /\ dm_held_calls' = dm_held_calls + 1
    /\ \E ok \in BOOLEAN :
          /\ lk_phase' = (IF ok THEN "unlock" ELSE "failed")
          /\ lk_registered' = (IF ok /\ lk_pc = "ioeventfd"
                               THEN lk_registered + 1 ELSE lk_registered)
    /\ UNCHANGED <<lk_pc, dm_holder, lk_queues, lk_activated, lk_iters,
                   lk_io_held, lk_evm_held>>

\* The statement ends: the guard is dropped if it was the statement's own,
\* and the thread goes on.  A failed call ends run_io with the error, or
\* panics in the unwrap of the device code; the guard is dropped on the way.
LockRelease ==
    /\ lk_pc \in LockSites
    /\ lk_phase \in {"unlock", "failed"}
    /\ IF lk_phase = "failed"
       THEN /\ dm_holder' = "none"
            /\ lk_pc' = (IF lk_pc \in {"irqfd", "ioeventfd"}
                         THEN "panicked" ELSE "returned")
            /\ lk_phase' = "none"
            /\ UNCHANGED lk_iters
       ELSE /\ dm_holder' = (IF GuardDropped(lk_pc, lk_registered, lk_queues)
                             THEN "none" ELSE dm_holder)
            /\ lk_pc' = AfterSite(lk_pc, lk_registered, lk_queues)
            /\ lk_phase' = (IF lk_pc' \in LockSites THEN "lock" ELSE "none")
            /\ lk_iters' = (IF lk_pc = "notify" THEN lk_iters + 1
                            ELSE lk_iters)
    /\ lk_io_held' = (IF lk_phase = "failed" THEN {} ELSE lk_io_held)
    /\ UNCHANGED <<dm_held_calls, lk_queues, lk_registered, lk_activated,
                   lk_evm_held>>

\* A dispatch that also locks the event manager around the bus access.
DispatchLocks_WithEventManager ==
    {"device_manager", "device", "event_manager"}

\* The mutexes run_io holds during a bus access: the one of the IoManager
\* (self.device_manager.lock()) and, inside it, the one of the device.
DispatchLocks ==
    {"device_manager", "device"}

\* The mutex run_event_manager holds while EventManager::run runs.
EventLoopLocks ==
    {"event_manager"}

\* The mutex the event loop takes to run init of the subscriber it adds.
SubscribeLocks ==
    {"handler"}

\* run_io dispatches the request on the bus: a register access that returns
\* at once, or the status write that makes the device activate, during
\* which the locks of the dispatch stay held.
LockDispatch ==
    /\ lk_pc = "dispatch"
    /\ lk_iters < MaxLockIters
    /\ DispatchLocks \cap lk_evm_held = {}
    /\ \E activates \in (IF lk_activated THEN {FALSE} ELSE BOOLEAN) :
          IF activates
          THEN /\ lk_pc' = "ioeventfd"
               /\ lk_phase' = "lock"
               /\ lk_io_held' = DispatchLocks
          ELSE /\ lk_pc' = "notify"
               /\ lk_phase' = "lock"
               /\ lk_io_held' = {}
    /\ UNCHANGED <<dm_holder, dm_held_calls, lk_queues, lk_registered,
                   lk_activated, lk_iters, lk_evm_held>>

\* run_event_manager: self.event_manager...lock().unwrap(), then run().
EvmLock ==
    /\ lk_evm_held = {}
    /\ EventLoopLocks \cap lk_io_held = {}
    /\ lk_evm_held' = EventLoopLocks
    /\ UNCHANGED <<lk_pc, lk_phase, dm_holder, dm_held_calls, lk_queues,
                   lk_registered, lk_activated, lk_iters, lk_io_held>>

\* run() returns with no remote call left to answer; the guard is dropped
\* and the loop of run_event_manager goes round.
EvmUnlock ==
    /\ lk_evm_held # {}
    /\ lk_pc # "wait"
    /\ lk_evm_held' = {}
    /\ UNCHANGED <<lk_pc, lk_phase, dm_holder, dm_held_calls, lk_queues,
                   lk_registered, lk_activated, lk_iters, lk_io_held>>

\* The event loop answers the call_blocking of finalize_activate; activate
\* and the bus access return.
LockEventLoopAnswers ==
    /\ lk_pc = "wait"
    /\ lk_evm_held = EventLoopLocks
    /\ SubscribeLocks \cap lk_io_held = {}
    /\ lk_activated' = TRUE
    /\ lk_pc' = "notify"
    /\ lk_phase' = "lock"
    /\ lk_io_held' = {}
    /\ UNCHANGED <<dm_holder, dm_held_calls, lk_queues, lk_registered,
                   lk_iters, lk_evm_held>>

-----------------------------------------------------------------------------
(* process_queue against a driver that honours NO_NOTIFY                    *)
(* (inorder_handler.rs, console_handler.rs)                                 *)

\* What process_chain returns for a chain.
ChainResults ==
    {"Ok", "Err"}

\* A process_queue that leaves after one round whatever the queue answers.
LoopAgain_Never(more) ==
    FALSE

\* process_queue: `if !self.queue.enable_notification(&self.mem)? { break; }`.
LoopAgain(more) ==
    more

\* The device after prepare_activate: the ioeventfd is registered with the
\* hypervisor, the handler is not in the event loop yet, the queue is empty.
NtfStart ==
    /\ nq_pc = "epoll"
    /\ nq_registered = FALSE
    /\ nq_sub_kicks = -1
    /\ nq_avail = 0
    /\ nq_next = 0
    /\ nq_done = 0
    /\ nq_no_notify = FALSE
    /\ nq_eventfd = 0
    /\ nq_drv = "idle"
    /\ nq_suppressed = 0

\* A subscription that hands the handler a descriptor without the kicks
\* that arrived before it.
NtfSubscribe_FreshFd ==
    /\ nq_sub_kicks = -1
    /\ nq_registered' = TRUE
    /\ nq_sub_kicks' = nq_eventfd
    /\ nq_eventfd' = 0
    /\ UNCHANGED <<nq_pc, nq_avail, nq_next, nq_done, nq_no_notify, nq_drv,
                   nq_suppressed>>

\* finalize_activate: the event loop adds the handler, whose init registers
\* the ioeventfd of prepare_activate for EventSet::IN.
NtfSubscribe ==
    /\ nq_sub_kicks = -1
    /\ nq_registered' = TRUE
    /\ nq_sub_kicks' = nq_eventfd
    /\ UNCHANGED <<nq_pc, nq_avail, nq_next, nq_done, nq_no_notify,
                   nq_eventfd, nq_drv, nq_suppressed>>

\* QueueHandler::process for an event of the ioeventfd: the read of the
\* ioeventfd resets its counter, then process_queue starts.
NtfProcess ==
    /\ nq_pc = "epoll"
    /\ nq_registered
    /\ nq_eventfd > 0
    /\ nq_eventfd' = 0
    /\ nq_pc' = "disable"
    /\ UNCHANGED <<nq_registered, nq_avail, nq_next, nq_done, nq_no_notify,
                   nq_drv, nq_suppressed,
                   nq_sub_kicks>>

\* process_queue: queue.disable_notification.
NtfDisableNotification ==
    /\ nq_pc = "disable"
    /\ nq_no_notify' = TRUE
    /\ nq_pc' = "iter"
    /\ UNCHANGED <<nq_registered, nq_avail, nq_next, nq_done, nq_eventfd,
                   nq_drv, nq_suppressed,
                   nq_sub_kicks>>

\* process_queue: queue.iter(..).next() reads avail.idx and takes a chain if
\* one is there.
NtfIterNext ==
    /\ nq_pc = "iter"
    /\ IF nq_next < nq_avail
       THEN /\ nq_next' = nq_next + 1
            /\ nq_pc' = "chain"
       ELSE /\ nq_pc' = "enable"
            /\ UNCHANGED nq_next
    /\ UNCHANGED <<nq_registered, nq_avail, nq_done, nq_no_notify,
                   nq_eventfd, nq_drv, nq_suppressed,
                   nq_sub_kicks>>

\* process_queue: process_chain(chain)?; an error leaves process_queue and
\* process() removes the handler from the event loop.
NtfProcessChain ==
    /\ nq_pc = "chain"
    /\ \E r \in ChainResults :
          IF r = "Ok"
          THEN /\ nq_done' = nq_done + 1
               /\ nq_pc' = "iter"
               /\ UNCHANGED nq_registered
          ELSE /\ nq_registered' = FALSE
               /\ nq_pc' = "epoll"
               /\ UNCHANGED nq_done
    /\ UNCHANGED <<nq_avail, nq_next, nq_no_notify, nq_eventfd, nq_drv,
                   nq_suppressed,
                   nq_sub_kicks>>

\* queue.enable_notification, first half: the flag is cleared.
NtfEnableSetFlag ==
    /\ nq_pc = "enable"
    /\ nq_no_notify' = FALSE
    /\ nq_pc' = "enable_read"
    /\ UNCHANGED <<nq_registered, nq_avail, nq_next, nq_done, nq_eventfd,
                   nq_drv, nq_suppressed,
                   nq_sub_kicks>>

\* queue.enable_notification, second half: after the fence avail.idx is read
\* again and compared with next_avail; process_queue loops when they differ.
NtfEnableReadIdx ==
    /\ nq_pc = "enable_read"
    /\ nq_pc' = IF LoopAgain(nq_next # nq_avail) THEN "disable" ELSE "epoll"
    /\ UNCHANGED <<nq_registered, nq_avail, nq_next, nq_done, nq_no_notify,
                   nq_eventfd, nq_drv, nq_suppressed,
                   nq_sub_kicks>>

\* The driver publishes a chain: it writes avail.idx.
NtfDriverPublish ==
    /\ nq_drv = "idle"
    /\ nq_avail < MaxNtfChains
    /\ nq_avail' = nq_avail + 1
    /\ nq_drv' = "published"
    /\ UNCHANGED <<nq_pc, nq_registered, nq_next, nq_done, nq_no_notify,
                   nq_eventfd, nq_suppressed,
                   nq_sub_kicks>>

\* The driver, after its fence, reads the flag and writes QueueNotify unless
\* NO_NOTIFY is set; the hypervisor raises the ioeventfd for the write.
NtfDriverNotify ==
    /\ nq_drv = "published"
    /\ nq_drv' = "idle"
    /\ IF nq_no_notify
       THEN /\ nq_suppressed' = nq_suppressed + 1
            /\ UNCHANGED nq_eventfd
       ELSE /\ nq_eventfd' = nq_eventfd + 1
            /\ UNCHANGED nq_suppressed
    /\ UNCHANGED <<nq_pc, nq_registered, nq_avail, nq_next, nq_done,
                   nq_no_notify,
                   nq_sub_kicks>>

-----------------------------------------------------------------------------
(* Specifications *)

\* The dispatch loop of a VM whose device is not being activated.
Init ==
    /\ IoInit
    /\ ActIdle
    /\ BlkStart(FALSE)
    /\ EvtStart("block", FALSE)
    /\ VmmStart(<<"virtio">>)
    /\ BusStart(<<>>)
    /\ IoctlStart
    /\ IrqStart("block")
    /\ MemStart(0, PageSize)
    /\ LockStart(1)
    /\ NtfStart

Next ==
    \/ RunIoAttach /\ UNCHANGED not_io
    \/ RunIoRequest /\ UNCHANGED not_io
    \/ RunIoDispatch /\ UNCHANGED not_io
    \/ RunIoNotify /\ UNCHANGED not_io

Spec ==
    Init /\ [][Next]_vars

\* The driver's status writes and the activation of the device.
InitAct ==
    /\ IoInit
    /\ ActInit
    /\ BlkStart(FALSE)
    /\ EvtStart("block", FALSE)
    /\ VmmStart(<<"virtio">>)
    /\ BusStart(<<>>)
    /\ IoctlStart
    /\ IrqStart("block")
    /\ MemStart(0, PageSize)
    /\ LockStart(1)
    /\ NtfStart

NextAct ==
    \/ DriverWriteFeatures /\ UNCHANGED not_act
    \/ DriverWriteStatus /\ UNCHANGED not_act
    \/ DriverOk /\ UNCHANGED not_act
    \/ EvtAddSubscriber /\ UNCHANGED not_act
    \/ ActivateResume /\ UNCHANGED not_act
    \/ GuestKick /\ UNCHANGED not_act
    \/ DriverWriteQueueAddr /\ UNCHANGED not_act

SpecAct ==
    InitAct /\ [][NextAct]_vars

\* The queue handler of an activated block device, its driver and the irqfd.
InitBlk ==
    /\ IoInit
    /\ ActBlockActive
    /\ BlkStart(TRUE)
    /\ EvtStart("block", TRUE)
    /\ VmmStart(<<"virtio">>)
    /\ BusStart(<<>>)
    /\ IoctlStart
    /\ IrqStart("block")
    /\ MemStart(0, PageSize)
    /\ LockStart(1)
    /\ NtfStart

NextBlk ==
    \/ BlkProcess /\ UNCHANGED not_blk
    \/ BlkDisableNotification /\ UNCHANGED not_blk
    \/ BlkIterNext /\ UNCHANGED not_blk
    \/ BlkProcessChain /\ UNCHANGED not_blk
    \/ BlkSignalFirst /\ UNCHANGED not_blk
    \/ BlkSignalSecond /\ UNCHANGED not_blk
    \/ BlkChainDone /\ UNCHANGED not_blk
    \/ BlkEnableNotification /\ UNCHANGED not_blk
    \/ DriverAddChain /\ UNCHANGED not_blk
    \/ DriverKick /\ UNCHANGED not_blk
    \/ DriverAck /\ UNCHANGED not_blk

SpecBlk ==
    InitBlk /\ [][NextBlk]_vars

\* The event loop of a VM with the queue handler of its device.
InitEvt ==
    /\ IoInit
    /\ ActIdle
    /\ BlkStart(FALSE)
    /\ \E k \in HandlerKinds : EvtStart(k, TRUE)
    /\ VmmStart(<<"virtio">>)
    /\ BusStart(<<>>)
    /\ IoctlStart
    /\ IrqStart("block")
    /\ MemStart(0, PageSize)
    /\ LockStart(1)
    /\ NtfStart

NextEvt ==
    \/ EvtKick /\ UNCHANGED not_evt
    \/ EvtProcess /\ UNCHANGED not_evt

SpecEvt ==
    InitEvt /\ [][NextEvt]_vars

\* The main thread and the threads of every VM.
InitVmm ==
    /\ IoInit
    /\ ActIdle
    /\ BlkStart(FALSE)
    /\ EvtStart("block", FALSE)
    /\ \E c \in Configs(MaxVms) : VmmStart(c)
    /\ BusStart(<<>>)
    /\ IoctlStart
    /\ IrqStart("block")
    /\ MemStart(0, PageSize)
    /\ LockStart(1)
    /\ NtfStart

NextVmm ==
    \/ VmmOpen /\ UNCHANGED not_vmm
    \/ VmmCreateVm /\ UNCHANGED not_vmm
    \/ VmmConstructed /\ UNCHANGED not_vmm
    \/ VmmSpawn /\ UNCHANGED not_vmm
    \/ VmmJoin /\ UNCHANGED not_vmm
    \/ IoStart /\ UNCHANGED not_vmm
    \/ IoFail /\ UNCHANGED not_vmm
    \/ EvmStart /\ UNCHANGED not_vmm
    \/ EvmFail /\ UNCHANGED not_vmm

SpecVmm ==
    InitVmm /\ [][NextVmm]_vars

\* The same, with every thread that can take a step scheduled eventually:
\* the main thread, and the entry of each spawned thread into its loop.
\* Failures are not bound to happen.
SpecVmmFair ==
    /\ InitVmm
    /\ [][NextVmm]_vars
    /\ WF_vars(VmmOpen /\ UNCHANGED not_vmm)
    /\ WF_vars(VmmCreateVm /\ UNCHANGED not_vmm)
    /\ WF_vars(VmmConstructed /\ UNCHANGED not_vmm)
    /\ WF_vars(VmmSpawn /\ UNCHANGED not_vmm)
    /\ WF_vars(VmmJoin /\ UNCHANGED not_vmm)
    /\ WF_vars(IoStart /\ UNCHANGED not_vmm)
    /\ WF_vars(EvmStart /\ UNCHANGED not_vmm)

\* The construction of the VMs of a configuration, bus by bus.
InitBus ==
    /\ IoInit
    /\ ActIdle
    /\ BlkStart(FALSE)
    /\ EvtStart("block", FALSE)
    /\ VmmStart(<<"virtio">>)
    /\ \E c \in DeviceConfigs(MaxVms) \ {<<>>} : BusStart(c)
    /\ IoctlStart
    /\ IrqStart("block")
    /\ MemStart(0, PageSize)
    /\ LockStart(1)
    /\ NtfStart

NextBus ==
    \/ VmNewDeviceManager /\ UNCHANGED not_bus
    \/ VmAddDevice /\ UNCHANGED not_bus

SpecBus ==
    InitBus /\ [][NextBus]_vars

\* The ioctls a device model issues, each with its computed request code.
InitIoctl ==
    /\ IoInit
    /\ ActIdle
    /\ BlkStart(FALSE)
    /\ EvtStart("block", FALSE)
    /\ VmmStart(<<"virtio">>)
    /\ BusStart(<<>>)
    /\ IoctlStart
    /\ IrqStart("block")
    /\ MemStart(0, PageSize)
    /\ LockStart(1)
    /\ NtfStart

NextIoctl ==
    \/ IssueIoctl /\ UNCHANGED not_ioc

SpecIoctl ==
    InitIoctl /\ [][NextIoctl]_vars

\* The interrupt status register of an activated device under signals,
\* reads and acknowledgements.
InitIrq ==
    /\ IoInit
    /\ ActIdle
    /\ BlkStart(FALSE)
    /\ EvtStart("block", FALSE)
    /\ VmmStart(<<"virtio">>)
    /\ BusStart(<<>>)
    /\ IoctlStart
    /\ \E k \in Kinds \ {"console"} : IrqStart(k)
    /\ MemStart(0, PageSize)
    /\ LockStart(1)
    /\ NtfStart

NextIrq ==
    \/ IrqSignalUsed /\ UNCHANGED not_irq
    \/ IrqRead /\ UNCHANGED not_irq
    \/ IrqAck /\ UNCHANGED not_irq

SpecIrq ==
    InitIrq /\ [][NextIrq]_vars

\* The shared memory of one device: mapped at construction, taken by mem().
InitMem ==
    /\ IoInit
    /\ ActIdle
    /\ BlkStart(FALSE)
    /\ EvtStart("block", FALSE)
    /\ VmmStart(<<"virtio">>)
    /\ BusStart(<<>>)
    /\ IoctlStart
    /\ IrqStart("block")
    /\ \E a \in ShmemAddrs, s \in ShmemSizes : MemStart(a, s)
    /\ LockStart(1)
    /\ NtfStart

NextMem ==
    \/ CommonMapRegion /\ UNCHANGED not_mem
    \/ CommonMem /\ UNCHANGED not_mem

SpecMem ==
    InitMem /\ [][NextMem]_vars

\* The threads of a VM taking and dropping the DeviceModel mutex.
InitLock ==
    /\ IoInit
    /\ ActIdle
    /\ BlkStart(FALSE)
    /\ EvtStart("block", FALSE)
    /\ VmmStart(<<"virtio">>)
    /\ BusStart(<<>>)
    /\ IoctlStart
    /\ IrqStart("block")
    /\ MemStart(0, PageSize)
    /\ \E n \in LockQueueNums : LockStart(n)
    /\ NtfStart

NextLock ==
    \/ LockAcquire /\ UNCHANGED not_lck
    \/ LockAbiCall /\ UNCHANGED not_lck
    \/ LockRelease /\ UNCHANGED not_lck
    \/ LockDispatch /\ UNCHANGED not_lck
    \/ LockEventLoopAnswers /\ UNCHANGED not_lck
    \/ EvmLock /\ UNCHANGED not_lck
    \/ EvmUnlock /\ UNCHANGED not_lck

SpecLock ==
    InitLock /\ [][NextLock]_vars

\* The event thread runs its loop.
SpecLockFair ==
    /\ SpecLock
    /\ WF_vars(EvmLock /\ UNCHANGED not_lck)
    /\ WF_vars(LockEventLoopAnswers /\ UNCHANGED not_lck)

InitNtf ==
    /\ IoInit
    /\ ActIdle
    /\ BlkStart(FALSE)
    /\ EvtStart("block", FALSE)
    /\ VmmStart(<<"virtio">>)
    /\ BusStart(<<>>)
    /\ IoctlStart
    /\ IrqStart("block")
    /\ MemStart(0, PageSize)
    /\ LockStart(1)
    /\ NtfStart

NextNtf ==
    \/ NtfSubscribe /\ UNCHANGED not_ntf
    \/ NtfProcess /\ UNCHANGED not_ntf
    \/ NtfDisableNotification /\ UNCHANGED not_ntf
    \/ NtfIterNext /\ UNCHANGED not_ntf
    \/ NtfProcessChain /\ UNCHANGED not_ntf
    \/ NtfEnableSetFlag /\ UNCHANGED not_ntf
    \/ NtfEnableReadIdx /\ UNCHANGED not_ntf
    \/ NtfDriverPublish /\ UNCHANGED not_ntf
    \/ NtfDriverNotify /\ UNCHANGED not_ntf

SpecNtf ==
    InitNtf /\ [][NextNtf]_vars

\* The event loop runs the handler and the driver finishes what it began.
SpecNtfFair ==
    /\ SpecNtf
    /\ WF_vars(NtfSubscribe /\ UNCHANGED not_ntf)
    /\ WF_vars(NtfProcess /\ UNCHANGED not_ntf)
    /\ WF_vars(NtfDisableNotification /\ UNCHANGED not_ntf)
    /\ WF_vars(NtfIterNext /\ UNCHANGED not_ntf)
    /\ WF_vars(NtfProcessChain /\ UNCHANGED not_ntf)
    /\ WF_vars(NtfEnableSetFlag /\ UNCHANGED not_ntf)
    /\ WF_vars(NtfEnableReadIdx /\ UNCHANGED not_ntf)
    /\ WF_vars(NtfDriverNotify /\ UNCHANGED not_ntf)

-----------------------------------------------------------------------------
(* Properties of the dispatch loop *)

\* Errors that run_io raises itself while dispatching a request.
DispatchErrors ==
    {"InvalidMmioOperation(write)", "InvalidMmioOperation(read)",
     "InvalidIoReqDirection"}

\* Requests that were fetched and for which no completion was issued.
Outstanding ==
    {s \in DOMAIN notified : notified[s] = 0}

IsPrefix(s, t) ==
    /\ Len(s) <= Len(t)
    /\ \A i \in 1..Len(s) : s[i] = t[i]

\* The calls of one iteration that serves request r, in order.
IterationCalls(r) ==
    IF r = NoReq
    THEN <<"attach_io_client", "request_io">>
    ELSE <<"attach_io_client", "request_io">>
         \o (IF r.op = BAO_IO_WRITE THEN <<"mmio_write">>
             ELSE IF r.op = BAO_IO_READ THEN <<"mmio_read">>
             ELSE <<>>)
         \o <<"notify_io_completed">>

\* C1: whenever the dispatch loop is between two requests or has ended, every
\* request that request_io returned has had exactly one notify_io_completed
\* issued for it, whatever its op code and address.
C1_EveryRequestCompletedOnce ==
    io_pc \in {"attach", "request", "returned"}
        => \A s \in DOMAIN notified : notified[s] = 1

\* C2: a request whose dispatch failed with InvalidMmioOperation or
\* InvalidIoReqDirection has its error logged and is still completed through
\* notify_io_completed, with a non-zero ret field.
C2_DispatchErrorCompleted ==
    io_err \in DispatchErrors
        => /\ io_log # "none"
           /\ notified[n_fetched] = 1
           /\ last_done # NoReq
           /\ last_done.ret # 0

\* C3: the dispatch loop ends only with the error of a failed hypervisor ABI
\* call; a request with an unowned address or an invalid op code does not
\* end it.
C3_StopsOnlyOnAbiFailure ==
    io_pc = "returned" => io_err = "BaoIoctlError"

C5_IdentificationPreserved ==
    /\ io_pc \in {"dispatch", "notify"}
          => \A f \in IdFields : req[f] = fetched_req[f]
    /\ (n_fetched > 0 /\ notified[n_fetched] = 1)
          => \A f \in IdFields : last_done[f] = fetched_req[f]

\* A request was completed with a value other than the one it carried.
C5_Witness ==
    /\ n_fetched > 0
    /\ notified[n_fetched] = 1
    /\ last_done.value # fetched_req.value

-----------------------------------------------------------------------------
(* Properties of the activation *)

\* C6: an activation invoked on a device that was already activated
\* successfully ends with the error value DeviceAlreadyActivated, registers no
\* further ioeventfd, adds no further subscriber, and the status gets FAILED.
C6_ReactivationFails ==
    (/\ act_calls > 0
     /\ pre.activated
     /\ act_pc \in {"idle", "dead"}
     /\ STATUS_DRIVER_OK \in device_status)
        => /\ act_result = ResErr("DeviceAlreadyActivated", {})
           /\ dev.regs = pre.regs
           /\ subscribers = pre_subs
           /\ STATUS_FAILED \in device_status

\* C7: prepare_activate on a device that is not activated and whose driver
\* features lack VERSION_1 returns DeviceBadFeatures(driver_features), creates
\* and registers no ioeventfd and leaves device_activated false.
C7_BadFeaturesRefused ==
    (/\ act_calls > 0
     /\ last_prepare.res # ResNone
     /\ ~pre.activated
     /\ VIRTIO_F_VERSION_1 \notin pre.features)
        => /\ last_prepare.res = ResErr("DeviceBadFeatures", pre.features)
           /\ last_prepare.ioevents = <<>>
           /\ dev.eventfds = pre.eventfds
           /\ dev.regs = pre.regs
           /\ ~dev.activated

\* prepare_activate refused a driver that negotiated features, VERSION_1 not
\* among them.
C7_Witness ==
    /\ act_calls > 0
    /\ last_prepare.res.err = "DeviceBadFeatures"
    /\ pre.features # {}
    /\ ~pre.activated

\* C8: a successful prepare_activate on a device with n queues returns n new
\* non-blocking eventfds; the i-th is registered at MMIO base + QueueNotify
\* with the DATAMATCH flag and datamatch i, and is the one of them that a
\* guest kick on queue i raises.
C8_IoeventfdsRegistered ==
    (act_calls > 0 /\ last_prepare.res = ResOk)
        => LET n == Len(pre.queues)
               ev == last_prepare.ioevents
               notify == MmioBase + VIRTIO_MMIO_QUEUE_NOTIFY_OFFSET
               added == dev.regs \ pre.regs
           IN /\ Len(ev) = n
              /\ Cardinality({ev[i] : i \in 1..n}) = n
              /\ Cardinality(added) = n
              /\ \A i \in 0..(n - 1) :
                    /\ [fd |-> ev[i + 1], nonblock |-> TRUE] \in dev.eventfds
                    /\ \A e \in pre.eventfds : e.fd # ev[i + 1]
                    /\ [fd |-> ev[i + 1],
                        flags |-> BAO_IOEVENTFD_FLAG_DATAMATCH,
                        addr |-> notify, len |-> 4, reserved |-> 0,
                        data |-> i] \in added
                    /\ KickTargets(added, notify, i) = {ev[i + 1]}

\* A device with three queues was prepared and the guest kicked queue 2.
C8_Witness ==
    /\ act_calls > 0
    /\ last_prepare.res = ResOk
    /\ Len(last_prepare.ioevents) = 3
    /\ last_prepare.ioevents[3] \in fd_raised
    /\ last_prepare.ioevents[1] \notin fd_raised

-----------------------------------------------------------------------------
(* Properties of the used-queue signalling and of the block handler *)

\* C9: signal_used_queue writes 1 to the irqfd only after it has set the
\* used-buffer bit (bit 0) of InterruptStatus in the same call: at every
\* write of the irqfd the call has done its fetch_or, and the bit is still
\* set unless the driver acknowledged it in between.
C9_StatusSetBeforeIrqfd ==
    [][irqfd' # irqfd
          => /\ irqfd' = irqfd + 1
             /\ sig_or_done
             /\ (VIRTIO_MMIO_INT_VRING \in interrupt_status \/ acked)]_vars

\* A signal_used_queue has completed and the driver has not acknowledged.
C9_Witness ==
    /\ blk_pc = "signalled"
    /\ irqfd = 1
    /\ ~acked
    /\ VIRTIO_MMIO_INT_VRING \in interrupt_status

\* C10: the used ring holds one entry per chain the handler returned, in the
\* order the chains were made available, each with the head index of its
\* chain and the byte count the disk reported (0 for a chain that does not
\* parse); when process ends without error every chain that was available at
\* the kick has its entry and the irqfd was written once per chain, so once
\* after a kick with one available chain, with bit 0 of InterruptStatus set
\* unless the driver acknowledged it since.
C10_BlockChainsUsed ==
    /\ Len(used) <= next_avail
    /\ \A i \in 1..Len(used) :
          /\ used[i].id = avail[i].head
          /\ used[i].len = (IF avail[i].parse_ok THEN reports[i] ELSE 0)
    /\ (blk_pc = "epoll" /\ blk_last = "ok")
          => /\ Len(used) = next_avail
             /\ Len(used) >= at_kick.avail
             /\ irqfd - at_kick.irq = next_avail - at_kick.next
             /\ (at_kick.avail - at_kick.next = 1
                    /\ Len(avail) = at_kick.avail) => irqfd = at_kick.irq + 1
             /\ (next_avail > at_kick.next /\ ~acked)
                    => VIRTIO_MMIO_INT_VRING \in interrupt_status

\* Two kicks, each with one available chain, were processed without error:
\* the first chain did not parse, the disk reported 512 bytes for the second.
C10_Witness ==
    /\ blk_pc = "epoll"
    /\ blk_last = "ok"
    /\ at_kick = [avail |-> 2, next |-> 1, irq |-> 1]
    /\ Len(used) = 2
    /\ used[1].len = 0
    /\ used[2] = [id |-> avail[2].head, len |-> 512]
    /\ irqfd = 2
    /\ VIRTIO_MMIO_INT_VRING \in interrupt_status

-----------------------------------------------------------------------------
(* Properties of the event loop *)

\* C12: once a process() call of a queue handler has taken an error branch,
\* no descriptor the handler registered in init is registered in the event
\* loop any more.
C12_FailedHandlerUnregistered ==
    evt_failed => evt_interest = {}

\* C13: a process() call that takes an error branch does not stop the
\* event-loop thread.
C13_EventLoopSurvives ==
    evt_failed => evt_thread = "running"

-----------------------------------------------------------------------------
(* Properties of the VMM *)

\* C14: a VM has an event manager exactly when its dataplane is "virtio",
\* and no thread enters the event loop of a VM that has none: the event
\* thread of such a VM neither runs nor panics.
C14_EventContextOnlyInProcess ==
    /\ \A i \in 1..Len(vms) :
          vms[i].event_manager = (vms[i].data_plane = "virtio")
    /\ \A t \in 1..Len(threads) :
          (threads[t].kind = "evm" /\ ~vms[threads[t].vm].event_manager)
              => threads[t].state = "spawned"

\* C15: when the process has ended after Vmm::run started the contexts, every
\* handle was joined and the backend of every VM was destroyed.
C15_BackendsDestroyed ==
    (process = "exited" /\ threads # <<>>)
        => /\ vcpus = <<>>
           /\ \A i \in 1..Len(backends) : backends[i] = "destroyed"

\* The dispatch loop of some VM has ended with an error.
IoLoopEnded ==
    \E t \in 1..Len(threads) :
        threads[t].kind = "io" /\ threads[t].state = "panicked"

\* C16: once the dispatch loop of a VM has ended with an error, the process
\* eventually terminates.
C16_DispatchErrorEndsProcess ==
    IoLoopEnded ~> (process = "exited")

\* C17: /dev/bao is opened at most once, it is open whenever the Vmm value
\* exists, and every DeviceModel was created while it was open.
C17_ControlFdLifetime ==
    /\ ctl_opens <= 1
    /\ vmm_pc \in {"creating", "run", "drop"} => ctl_fd = "open"
    /\ \A i \in 1..Len(vms) : vms[i].fd_open

-----------------------------------------------------------------------------
(* Properties of reset and of the queues after activation *)

\* C18: an activation of a device that was activated before and was reset
\* since succeeds (unless the TAP device cannot be opened): it does not end
\* with DeviceAlreadyActivated nor panic for want of queues or guest memory.
C18_ResetReactivates ==
    (/\ act_calls > 0
     /\ pre.regs # {}
     /\ act_pc \in {"idle", "dead"}
     /\ STATUS_DRIVER_OK \in device_status)
        => act_result \in {ResOk, ResErr("NetTapOpenFailed", {})}

\* C19: while device_activated is true no step changes the descriptor-table,
\* available-ring or used-ring address of a queue the handler or backend
\* holds, whatever the driver writes to the queue address registers.
C19_QueuesUntouchedAfterActivation ==
    [][(dev.activated /\ dev'.activated)
          => handler_queues' = handler_queues]_vars

\* The driver has rewritten an address register of a queue of an activated
\* device, and the handler's queue still has the address it was given.
C19_Witness ==
    /\ dev.activated
    /\ \E q \in DOMAIN handler_queues : queue_cfg[q] # handler_queues[q]

-----------------------------------------------------------------------------
(* Properties of the MMIO bus *)

\* The devices Vm::new has added so far.
AddedDevices ==
    {vm \in 1..Len(device_manager) : device_manager[vm] # {}}

\* The entries of all buses that belong to the device of VM vm.
RangesOf(vm) ==
    {e.range : e \in {x \in UNION {device_manager[b] :
                                      b \in 1..Len(device_manager)} :
                         x.device = vm}}

\* The ranges a further device could be configured with.
FurtherRanges ==
    {[base |-> a, size |-> MMIO_RANGE_SIZE] : a \in MmioBases}

-----------------------------------------------------------------------------
(* Properties of the ioctl request codes *)

\* C21: every request code computed for one of the ten operations is
\* (direction << 30) | (payload size << 16) | (0xA6 << 8) | nr, and is the
\* constant declared for that number.
C21_IoctlCodes ==
    \A i \in 1..Len(ioctl_log) :
       LET c == ioctl_log[i]
           d == IoctlDefs[c.nr]
       IN /\ d.nr = c.nr
          /\ c.code = <<(BAO_IOCTL_TYPE * 256 + c.nr) % Limb,
                        d.dir * 16384 + SizeOf(d.payload)>>
          /\ c.code = DeclaredCodes[c.nr]

\* The request ioctl, whose payload ends with padding, and the irqfd ioctl
\* have both been issued.
C21_Witness ==
    /\ \E i \in 1..Len(ioctl_log) : ioctl_log[i].nr = 6
    /\ \E i \in 1..Len(ioctl_log) : ioctl_log[i].nr = 10

-----------------------------------------------------------------------------
(* Properties of Vm::add_device *)

\* The pairs of device type and dataplane a device is to be built for.
SupportedPairs ==
    {<<"block", "virtio">>, <<"net", "virtio">>, <<"net", "vhost">>,
     <<"vsock", "vhost">>, <<"vsock", "vhost_user">>,
     <<"fs", "vhost_user">>, <<"console", "virtio">>}

\* C22: add_device builds and registers a device exactly for Block/virtio,
\* Net/virtio, Net/vhost, Vsock/vhost, Vsock/vhost_user, Fs/vhost_user and
\* Console/virtio; for every other pair it ends with
\* WrongDeviceConfiguration(type, dataplane) and the bus of the VM is empty.
C22_AddDevicePairs ==
    \A vm \in 1..Len(device_manager) :
       (bus_pc # "add_device" \/ vm < Len(device_manager)) =>
          LET pair == <<dev_cfg[vm].device_type, dev_cfg[vm].data_plane>>
          IN IF pair \in SupportedPairs
             THEN \E e \in device_manager[vm] : e.device = vm
             ELSE /\ device_manager[vm] = {}
                  /\ vm = Len(device_manager)
                  /\ add_result.err = "WrongDeviceConfiguration"
                  /\ add_result.arg = pair

-----------------------------------------------------------------------------
(* Properties of the interrupt status register *)

\* C23: for every device kind, after an ACK of 0x01 bit 0 is clear, a read
\* that follows it with no used-buffer notification in between returns bit 0
\* clear, an ACK repeated right after itself changes nothing, and no ACK
\* sets a bit.
C23_AckClearsInterrupt ==
    \A i \in 1..Len(irq_log) :
       LET e == irq_log[i]
       IN /\ (e.op = "ack" /\ VIRTIO_MMIO_INT_VRING \in e.val)
                => VIRTIO_MMIO_INT_VRING \notin e.after
          /\ e.op = "ack" => e.after \subseteq e.before
          /\ (i > 1 /\ e.op = "ack" /\ irq_log[i - 1].op = "ack"
                /\ irq_log[i - 1].val = e.val)
                => e.after = e.before
          /\ (e.op = "read"
                /\ \E j \in 1..(i - 1) :
                      /\ irq_log[j].op = "ack"
                      /\ VIRTIO_MMIO_INT_VRING \in irq_log[j].val
                      /\ \A k \in (j + 1)..(i - 1) :
                            irq_log[k].op # "signal")
                => VIRTIO_MMIO_INT_VRING \notin e.val

-----------------------------------------------------------------------------
(* Properties of the guest memory of a device *)

\* C24: the region map_region pushes maps the file bytes from the offset
\* given and is size bytes long, so that it covers exactly the guest
\* addresses [base_addr, base_addr + size).
C24_MapRegionExact ==
    \A i \in 1..Len(regions) :
       /\ regions[i].file_offset = 0
       /\ regions[i].guest_base = mem_cfg.shmem_addr
       /\ regions[i].len = mem_cfg.shmem_size

\* C28: a call of mem() leaves the regions of the device as they were and
\* yields a guest memory made of them, the same at every call.
C28_MemKeepsRegions ==
    \A i \in 1..Len(mem_log) :
       /\ mem_log[i].after = mem_log[i].before
       /\ mem_log[i].ok
       /\ mem_log[i].before = mem_log[1].before

-----------------------------------------------------------------------------
(* Properties of finalize_activate *)

\* The devices whose activate() hands a queue handler to the event loop.
FinalizeKinds ==
    {"block", "net_virtio", "vsock_virtio", "console"}

\* C25: device_activated of a device with a queue handler is true, and
\* finalize_activate has returned, only after the event-loop thread added the
\* handler with its ioeventfds as a subscriber; while the remote call is
\* unanswered the dispatch thread waits in it, the device not yet activated.
C25_ActivatedAfterSubscribed ==
    /\ (dev.activated /\ dev_kind \in FinalizeKinds) =>
          /\ pending_handler = NoHandler
          /\ Len(subscribers) = 1
          /\ subscribers[1].fds # <<>>
    /\ act_pc = "waiting" =>
          /\ ~dev.activated
          /\ act_result = Waiting
          /\ pending_handler # NoHandler
          /\ subscribers = pre_subs

\* A block device is activated and its handler is subscribed.
C25_Witness ==
    /\ dev_kind = "block"
    /\ dev.activated
    /\ act_pc = "idle"
    /\ Len(subscribers) = 1
    /\ subscribers[1].kind = "block"

-----------------------------------------------------------------------------
(* Properties of the DeviceModel mutex *)

\* C26: a thread that holds the DeviceModel mutex makes one ABI call before
\* it drops it; the mutex is free when run_io enters the bus, when the
\* thread waits for the event loop, and whenever no site is running.
C26_MutexPerAbiCall ==
    /\ dm_held_calls <= 1
    /\ lk_pc \notin LockSites => dm_holder = "none"
    /\ (lk_pc \in LockSites /\ lk_phase = "lock") => dm_holder = "none"

\* The second register_ioeventfd of an activation is being called under a
\* guard of its own.
C26_Witness ==
    /\ lk_pc = "ioeventfd"
    /\ lk_phase = "unlock"
    /\ lk_registered = 2
    /\ dm_holder = "io"
    /\ dm_held_calls = 1

-----------------------------------------------------------------------------
(* Properties of the request value and of unowned addresses *)

\* The request served last has been completed and no other fetched since.
LastCompleted ==
    /\ n_fetched > 0
    /\ notified[n_fetched] = 1
    /\ io_pc \in {"attach", "request", "returned"}

\* C27: a READ of a scratch register completes with the 4-byte value that
\* the last WRITE to that register carried.
C27_WriteReadRoundTrip ==
    (/\ LastCompleted
     /\ last_done.op = BAO_IO_READ
     /\ last_done.addr - MmioBase \in ScratchOffsets)
        => last_done.value = AsU64(scratch_src[last_done.addr - MmioBase])

\* A READ of the scratch register has returned the non-zero value written
\* before it.
C27_Witness ==
    /\ LastCompleted
    /\ last_done.op = BAO_IO_READ
    /\ last_done.addr - MmioBase \in ScratchOffsets
    /\ last_done.value = <<4660, 43981, 0, 0>>

\* C29: the dispatch of a READ or WRITE whose address no device owns ends
\* run_io with InvalidMmioOperation, of kind "read" for a READ and "write"
\* for a WRITE, and leaves the registers of the device as they were.
C29_UnownedAddressRefused ==
    [][(/\ io_pc = "dispatch"
        /\ req.op \in {BAO_IO_READ, BAO_IO_WRITE}
        /\ BusOwners(req.addr) = {})
          => /\ io_pc' = "returned"
             /\ io_err' = (IF req.op = BAO_IO_READ
                           THEN "InvalidMmioOperation(read)"
                           ELSE "InvalidMmioOperation(write)")
             /\ dev_regs' = dev_regs]_vars

\* A WRITE to an address outside the device's range has ended the loop
\* after an earlier WRITE had filled the scratch register.
C29_Witness ==
    /\ io_pc = "returned"
    /\ io_err = "InvalidMmioOperation(write)"
    /\ req.op = BAO_IO_WRITE
    /\ BusOwners(req.addr) = {}
    /\ \E o \in ScratchOffsets : dev_regs[o] # <<0, 0, 0, 0>>

\* C30: the completion of a WRITE carries the 64-bit value of the request as
\* it was fetched; the completion of a READ carries the zero-extended u32
\* made of the four bytes the device returned.
C30_ValueUnpackedForReadOnly ==
    LastCompleted =>
       /\ last_done.op = BAO_IO_WRITE
             => last_done.value = fetched_req.value
       /\ last_done.op = BAO_IO_READ
             => last_done.value = AsU64(FromLeBytes(data))

-----------------------------------------------------------------------------
(* Properties of reads *)

\* What a register holds, by the device state and the offset alone: zero
\* where no register is defined.
RegisterValue(regs, offset) ==
    IF offset \in ScratchOffsets THEN regs[offset] ELSE <<0, 0, 0, 0>>

\* C31: a completed READ carries the value of the register at its address,
\* zero at an offset without a register, whatever value the request held
\* when it was fetched.
C31_ReadIndependentOfIncomingValue ==
    (LastCompleted /\ last_done.op = BAO_IO_READ)
        => last_done.value =
              AsU64(FromLeBytes(RegisterValue(dev_regs,
                                              last_done.addr - MmioBase)))

-----------------------------------------------------------------------------
(* Properties of process_queue and the driver's kicks *)

\* With the handler waiting in the event loop and the driver between two
\* requests, an unprocessed chain has a kick waiting in the ioeventfd.
NoLostKick ==
    (/\ nq_pc = "epoll"
     /\ nq_registered
     /\ nq_drv = "idle"
     /\ nq_next < nq_avail) => nq_eventfd > 0

\* process_queue returns with notifications enabled.
ReturnsEnabled ==
    (nq_pc = "epoll" /\ nq_registered) => ~nq_no_notify

\* C32: no wakeup is lost in process_queue: whenever it has returned, every
\* published chain was taken or a kick for it is in the ioeventfd, it returns
\* with notifications enabled, and every published chain is eventually taken
\* by a handler that stays in the event loop.
C32_NoLostWakeup ==
    /\ [](NoLostKick /\ ReturnsEnabled)
    /\ \A n \in 1..MaxNtfChains :
          (nq_avail >= n) ~> (nq_next >= n \/ ~nq_registered)

\* The driver left out a kick because NO_NOTIFY was set, and process_queue
\* returned after it had processed every chain.
C32_Witness ==
    /\ nq_suppressed > 0
    /\ nq_pc = "epoll"
    /\ nq_registered
    /\ nq_drv = "idle"
    /\ nq_done = nq_avail
    /\ nq_avail = MaxNtfChains

\* C33: a kick raised between prepare_activate and the subscription of the
\* handler is still in the ioeventfd when the handler is subscribed, and the
\* handler is then woken and takes the chain from the queue.
C33_EarlyKickServed ==
    /\ [](nq_sub_kicks > 0
            => nq_next > 0 \/ nq_eventfd > 0 \/ nq_pc # "epoll")
    /\ (nq_sub_kicks > 0) ~> (nq_next > 0)

\* The handler was subscribed with a kick waiting and has processed the
\* chain of that kick.
C33_Witness ==
    /\ nq_sub_kicks > 0
    /\ nq_done > 0
    /\ nq_pc = "epoll"

-----------------------------------------------------------------------------
(* Properties of the locks of an activation *)

\* C34: while the dispatch thread waits in the remote call with the locks of
\* the bus access held, the event thread needs none of them, and the call
\* is answered: the device becomes activated.
C34_ActivationNoDeadlock ==
    /\ [](lk_pc = "wait"
            => /\ lk_io_held = DispatchLocks
               /\ (EventLoopLocks \cup SubscribeLocks) \cap lk_io_held = {})
    /\ (lk_pc = "wait") ~> lk_activated

\* The remote call was answered by an event thread that held the event
\* manager while the dispatch thread held the bus and the device.
C34_Witness ==
    /\ lk_activated
    /\ lk_pc = "notify"
    /\ lk_evm_held = EventLoopLocks
    /\ lk_queues = 2

-----------------------------------------------------------------------------
(* Properties of the TX path of the net handler *)

\* C35: a process() call of the net handler whose read of the TX ioeventfd
\* failed has removed the handler's interests once and has not worked on
\* the TX queue; no process() call removes a descriptor twice.
C35_TxReadFailureStops ==
    (evt_kind = "net" /\ evt_last.fd # "none")
        => /\ (/\ evt_last.fd = "tx"
               /\ evt_last.event_set = "IN"
               /\ ~evt_last.read_ok)
                  => /\ evt_last.removes = NetHandleError
                     /\ ~evt_last.ran
           /\ \A i, j \in DOMAIN evt_last.removes :
                  evt_last.removes[i] = evt_last.removes[j] => i = j

-----------------------------------------------------------------------------
(* Properties of the chains the block handler takes *)

\* C36: outside process_chain every chain the block handler has taken from
\* the available ring has its entry in the used ring, with its head index,
\* also after the disk backend failed.
C36_TakenChainsReturned ==
    blk_pc # "chain"
        => /\ Len(used) = next_avail
           /\ \A i \in 1..next_avail : used[i].id = avail[i].head

-----------------------------------------------------------------------------
(* Properties of activate() and of the ioeventfds it registers *)

\* C37: when activate() has returned Ok(()) for a device, whatever its kind,
\* device_activated of the device is true.
C37_ActivatedAfterSuccess ==
    (act_calls > 0 /\ act_pc = "idle" /\ act_result = ResOk)
        => dev.activated

\* C38: after a successful activation every ioeventfd that prepare_activate
\* registered is held by the subscribed handler at the index of its queue,
\* or was given to the vhost backend as the kick of that queue.
C38_IoeventfdsHandedOver ==
    (/\ act_calls > 0
     /\ act_pc = "idle"
     /\ act_result = ResOk
     /\ last_prepare.res = ResOk)
        => \A i \in DOMAIN last_prepare.ioevents :
              \/ \E s \in DOMAIN subscribers :
                    /\ i \in DOMAIN subscribers[s].fds
                    /\ subscribers[s].fds[i] = last_prepare.ioevents[i]
              \/ [queue |-> i - 1, fd |-> last_prepare.ioevents[i]]
                    \in dev.backend

-----------------------------------------------------------------------------
(* Properties of the vsock handler after init *)

\* C39: a process() call of the vsock handler for an IN event whose data is
\* the index of one of its queues works on that queue.
C39_VsockQueueIndexAccepted ==
    (/\ evt_kind = "vsock"
     /\ evt_last.fd # "none"
     /\ evt_last.event_set = "IN"
     /\ FdData(evt_last.fd) < Cardinality(HandlerFds("vsock")))
        => evt_last.ran

-----------------------------------------------------------------------------
(* Properties of interrupt_status() of the vhost devices *)

\* C40: for the vhost and vhost-user devices every read of InterruptStatus
\* returns bit 0 set, every write of InterruptACK works on the register
\* with bit 0 set, and no access of the driver sets bit 1.
C40_VhostAccessSetsVring ==
    irq_kind \in VhostKinds
        => \A i \in 1..Len(irq_log) :
              LET e == irq_log[i]
              IN /\ e.op = "read"
                      => /\ VIRTIO_MMIO_INT_VRING \in e.val
                         /\ e.after = e.before \cup {VIRTIO_MMIO_INT_VRING}
                 /\ e.op = "ack"
                      => e.after =
                            (e.before \cup {VIRTIO_MMIO_INT_VRING}) \ e.val
                 /\ VIRTIO_MMIO_INT_CONFIG \notin e.after

\* The driver of a vhost device acknowledged the used-buffer bit and read
\* the register again: the read returned the bit set.
C40_Witness ==
    /\ irq_kind \in VhostKinds
    /\ Len(irq_log) >= 2
    /\ irq_log[Len(irq_log) - 1].op = "ack"
    /\ irq_log[Len(irq_log) - 1].after = {}
    /\ irq_log[Len(irq_log)].op = "read"
    /\ irq_log[Len(irq_log)].val = {VIRTIO_MMIO_INT_VRING}

====
